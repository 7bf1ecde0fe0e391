-------------------------------- MODULE Crawl --------------------------------
(***************************************************************************)
(* How a datasource reads what its service publishes, request by request:   *)
(* readurl tries again what fails, unless the caller's exception_cb says    *)
(* that it is of no use, and each datasource has its own mind about a        *)
(* document that is not there, cannot be had, or cannot be parsed.  The      *)
(* crawl keeps what it reads in memory until get_data returns.               *)
(* A request times out or is answered by an error as often as MaxFaults,     *)
(* an answer may be broken, or never come where there is no timeout, and     *)
(* MAAS refuses one from a wrong clock.                                      *)
(***************************************************************************)
EXTENDS Integers, Sequences, FiniteSets, SequencesExt

CONSTANTS Crawlers,   \* the datasources that crawl
          Retries,    \* stands for the 5 of most (30 of DigitalOcean)
          MaxFaults,  \* requests of a crawl that may go wrong
          Tree,       \* EC2's listings: what each has as [name, path, kind]
          Offers      \* per crawler: the sets of documents a service may have

VARIABLES crawler,   \* the datasource
          published, \* what its service has
          asks,      \* the requests to come
          tried,     \* attempts of the first of them
          got,       \* what was read
          outcome,   \* "crawling", what get_data makes of it, or "hangs"
          clock,     \* MAAS: "right", "wrong", or "known" to be wrong
          faults     \* history: the kinds of faults, one by one; of a frame, its key

crawling == <<crawler, published, asks, tried, got, outcome, clock, faults>>

----------------------------------------------------------------------------
\* What is done about a document that is gone, one that cannot be had, and one whose
\* content is bad: "skip" it, "forget" all that belongs to it, say "no", or "raise".
Get(doc) == [doc |-> doc, tries |-> 1, stop |-> {}, gone |-> "skip", fails |-> "skip", bad |-> "keep"]
Retried(doc) == [Get(doc) EXCEPT !.tries = Retries + 1]
Must(ask, how) == [ask EXCEPT !.gone = how, !.fails = how]

\* Mutant: whatever fails is taken for a document that is not there.
UserData_StopsAtOnce == [Retried("user-data") EXCEPT !.stop = {"404", "500", "timeout"}]

\* get_instance_userdata: what is not there is not tried again.
UserData == [Retried("user-data") EXCEPT !.stop = {"404"}]

(* MetadataMaterializer: a request for each listing and each leaf; one that  *)
(* fails after its retries leaves {} of the whole.                          *)
Branch(path) == Must(Retried(path), "forget")

\* No credentials; and the extended version, where it was found, lists the network.
LeftOut == {"security-credentials"} \cup IF "version" \in got THEN {} ELSE {"network"}

\* _parse: children and leaves.
Listed(path, kind) ==
    FlattenSeq([n \in DOMAIN Tree[path] |->
        IF Tree[path][n].kind = kind /\ Tree[path][n].name \notin LeftOut THEN <<Branch(Tree[path][n].path)>> ELSE <<>>])

\* _materialize: the children, each with all that is below it, then the leaves.
Below(path) == IF path \in DOMAIN Tree THEN Listed(path, "dir") \o Listed(path, "leaf") ELSE <<>>

----------------------------------------------------------------------------
OsVersions == <<"2012-08-10", "2013-04-04", "2013-10-17", "2015-10-15">>

Latest == Len(OsVersions) + 1

\* _find_working_version: the newest that both know, or "latest".
FindWorkingVersion(available) ==
    LET known == {n \in DOMAIN OsVersions : OsVersions[n] \in available}
    IN  IF known = {} THEN Latest ELSE CHOOSE n \in known : \A k \in known : k <= n

\* The versions that introduced a document, as the service has it.
Since(doc) == CASE doc = "vendor_data.json" -> 3 [] doc = "network_data.json" -> 4 [] OTHER -> 1

(* read_v2, by a reader of urls or of files: the metadata must be there, its *)
(* files too if it names any; what else cannot be read is taken for absent.  *)
ReadV2(read, offer) ==
    LET json(doc) == [[read EXCEPT !.doc = doc] EXCEPT !.bad = "no"]
        content(doc) == IF doc \in offer THEN <<Must([read EXCEPT !.doc = doc], "no")>> ELSE <<>>
    IN  <<[read EXCEPT !.doc = "versions"], Must(json("meta_data.json"), "no"),
          [read EXCEPT !.doc = "user_data"], json("vendor_data.json"), json("network_data.json")>>
        \o content("content/0000") \o content("content/network_config")

\* MetadataReader.should_retry_cb is asked whether to stop: it says so of what has no
\* code, and not of what has one of 400 and more.
FromUrl == [Retried("") EXCEPT !.stop = {"timeout"}]

OpenStackCrawl(offer) == ReadV2(FromUrl, offer) \o <<Branch("meta-data/")>>
ConfigDriveCrawl(offer) == ReadV2(Get(""), offer) \o <<[Get("ec2/latest/meta-data.json") EXCEPT !.fails = "no", !.bad = "no"]>>

----------------------------------------------------------------------------
\* Ec2: the preferred version is asked for once.
Ec2Crawl == <<Get("version"), UserData, Branch("meta-data/")>>
AliYunCrawl == <<UserData, Branch("meta-data/")>>

\* CloudStack: the password is acknowledged before it is used.
Password == Get("password")
Acknowledge == Must(Get("saved_password"), "forget")
CloudStackCrawl == <<UserData, Branch("meta-data/"), Password>>

(* MAAS: every error but a 404 ends it, and the 404 of what is required.     *)
Maas(doc, optional) ==
    [Get(doc) EXCEPT !.tries = 2, !.fails = "no", !.gone = IF optional THEN "skip" ELSE "no",
                     !.bad = IF doc = "vendor-data" THEN "no" ELSE "keep"]
MaasCrawl ==
    <<Must(Retried("instance-id"), "no"), Maas("instance-id", FALSE), Maas("local-hostname", FALSE),
      Maas("public-keys", TRUE), Maas("vendor-data", TRUE), Maas("user-data", TRUE)>>

(* Scaleway: each of range(1, max(retries, 2)) is a port to ask from; there  *)
(* may be no user-data and no vendor-data.                                  *)
Ports == (IF Retries < 2 THEN 2 ELSE Retries) - 1
FromPorts(doc) == [Get(doc) EXCEPT !.tries = Ports, !.stop = {"404"}, !.fails = "raise"]
ScalewayCrawl ==
    <<[Must(Retried("conf"), "raise") EXCEPT !.bad = "raise"], FromPorts("user-data"), FromPorts("vendor-data")>>

\* GCE: one request for each of its keys, three of which it must have.
GceCrawl ==
    <<Must(Get("instance-id"), "no"), Must(Get("zone"), "no"), Must(Get("hostname"), "no"),
      Get("project sshKeys"), Get("instance ssh-keys"), Get("user-data"), Get("user-data-encoding")>>

DigitalOceanCrawl == <<[Must(Retried("v1.json"), "raise") EXCEPT !.bad = "raise"]>>
BigstepCrawl == <<[Must(Get("url"), "raise") EXCEPT !.bad = "raise"]>>

\* SmartOS: one frame for each key: where it says SUCCESS it is checked for its length,
\* checksum and request, where it says anything else there is no value.
Frame(key) == [Get(key) EXCEPT !.bad = "raise"]
SmartOSCrawl == <<Frame("sdc:uuid"), Frame("hostname"), Frame("cloud-init:user-data"), Frame("sdc:nics")>>

Requests(by, offer) ==
    CASE by = "Ec2" -> Ec2Crawl           [] by = "AliYun" -> AliYunCrawl
      [] by = "OpenStack" -> OpenStackCrawl(offer) [] by = "ConfigDrive" -> ConfigDriveCrawl(offer)
      [] by = "CloudStack" -> CloudStackCrawl [] by = "MAAS" -> MaasCrawl
      [] by = "Scaleway" -> ScalewayCrawl [] by = "GCE" -> GceCrawl
      [] by = "Bigstep" -> BigstepCrawl   [] by = "SmartOS" -> SmartOSCrawl
      [] by = "DigitalOcean" -> DigitalOceanCrawl

----------------------------------------------------------------------------
Root == "meta-data/"
Entries == UNION {ToSet(Tree[d]) : d \in DOMAIN Tree}
TreeDocs == DOMAIN Tree \cup {e.path : e \in Entries}
OpenStackDocs == {"meta_data.json", "user_data", "vendor_data.json", "network_data.json"}
Contents == {"content/0000", "content/network_config"}
DocsOf(seq) == {seq[k].doc : k \in DOMAIN seq}

\* They do not take a failure for an absence, but for SmartOS an answer without SUCCESS.
Strict == {"MAAS", "Scaleway", "DigitalOcean", "Bigstep", "SmartOS"}

\* The paths of a tree are its own; no service has contents, or one of a strict datasource
\* anything, that is not asked for.
ASSUME CrawlAssumption ==
    /\ Retries \in Nat \ {0, 1} /\ MaxFaults \in Nat
    /\ Crawlers \subseteq
         {"Ec2", "AliYun", "OpenStack", "ConfigDrive", "CloudStack", "GCE"} \cup Strict
    /\ Root \in DOMAIN Tree /\ TreeDocs \cap ({"version", "password", "saved_password"} \cup Contents) = {}
    /\ \A d \in DOMAIN Tree : Tree[d] \in Seq(Entries)
    /\ \A e \in Entries : e.kind \in {"leaf", "dir"}
    /\ \A c \in Crawlers : \A o \in Offers[c] :
         /\ DocsOf(Requests(c, o)) \cap TreeDocs \subseteq {Root}
         /\ o \cap Contents \subseteq DocsOf(Requests(c, o))
         /\ c \in Strict => o \subseteq DocsOf(Requests(c, o))

\* The directory of a version has what there was then; the rest is as published.
Serves(doc) ==
    IF doc \in TreeDocs THEN "meta-data/" \in published
    ELSE /\ doc \in published
         /\ doc \in OpenStackDocs =>
                Since(doc) <= FindWorkingVersion(IF "versions" \in got THEN published ELSE {})

\* What belongs together: a tree, a password and its acknowledgement.
UnitOf(doc) ==
    CASE doc \in TreeDocs -> TreeDocs
      [] doc \in {"password", "saved_password"} -> {"password", "saved_password"}
      [] OTHER -> {doc}

CrawlInit ==
    /\ crawler \in Crawlers /\ published \in Offers[crawler]
    /\ clock \in IF crawler = "MAAS" THEN {"right", "wrong"} ELSE {"right"}
    /\ asks = Requests(crawler, published) /\ tried = 0 /\ got = {} /\ outcome = "crawling" /\ faults = <<>>

Asking == outcome = "crawling" /\ asks # <<>>
Ask == Head(asks)

\* Mutant: what fails below a listing is left out of it.
Dispose_InPart(how) ==
    /\ tried' = 0
    /\ asks' = IF how \in {"skip", "forget"} THEN Tail(asks) ELSE <<>>
    /\ got' = got
    /\ outcome' = CASE how = "no" -> "no" [] how = "raise" -> "raised" [] OTHER -> outcome

\* The requests that are left when a document is forgotten with its unit.
Without(seq, docs) == FlattenSeq([k \in DOMAIN seq |-> IF seq[k].doc \in docs THEN <<>> ELSE <<seq[k]>>])

Dispose(how) ==
    /\ tried' = 0
    /\ asks' = CASE how = "skip" -> Tail(asks)
                 [] how = "forget" -> Without(asks, UnitOf(Ask.doc))
                 [] OTHER -> <<>>
    /\ got' = IF how = "forget" THEN got \ UnitOf(Ask.doc) ELSE got
    /\ outcome' = CASE how = "no" -> "no" [] how = "raise" -> "raised" [] OTHER -> outcome

\* readurl: once more, or it raises what it met last.
Again(reply, how) ==
    IF reply \notin Ask.stop /\ tried + 1 < Ask.tries
    THEN tried' = tried + 1 /\ UNCHANGED <<asks, got, outcome>>
    ELSE Dispose(how)

(* The document comes, and with it what else there is to ask for.           *)
Reply ==
    /\ Asking /\ clock # "wrong" /\ Serves(Ask.doc)
    /\ got' = got \cup {Ask.doc} /\ tried' = 0
    /\ asks' = (IF Ask.doc = "password" THEN <<Acknowledge>> ELSE Below(Ask.doc)) \o Tail(asks)
    /\ UNCHANGED <<crawler, published, outcome, clock, faults>>

NotFound ==
    /\ Asking /\ clock # "wrong" /\ ~Serves(Ask.doc)
    /\ Again("404", Ask.gone)
    /\ UNCHANGED <<crawler, published, clock, faults>>

\* What may come instead of a document: of SmartOS a frame whose SUCCESS is lost.
FaultsOf ==
    CASE crawler = "ConfigDrive" -> {"error"}
      [] crawler = "SmartOS" -> {Ask.doc}
      [] OTHER -> {"error", "timeout"}

(* A request that fails by itself.                                          *)
Fault ==
    /\ Asking /\ clock # "wrong" /\ Len(faults) < MaxFaults
    /\ \E kind \in FaultsOf : Again(kind, Ask.fails) /\ faults' = Append(faults, kind)
    /\ UNCHANGED <<crawler, published, clock>>

\* No timeout is passed to these requests; SmartOS reads on when a read of its has none
\* of the line to give.  MAAS has one only while it waits for its service.
Untimed ==
    \/ crawler \in {"GCE", "Bigstep", "SmartOS"}
    \/ crawler = "Ec2" /\ Ask.doc = "version"
    \/ crawler = "MAAS" /\ asks # Requests(crawler, published)

(* An answer that does not come, and is waited for.                         *)
Hang ==
    /\ Asking /\ clock # "wrong" /\ Len(faults) < MaxFaults /\ Untimed
    /\ outcome' = "hangs" /\ faults' = Append(faults, "hang")
    /\ UNCHANGED <<crawler, published, asks, tried, got, clock>>

\* What comes cannot be parsed.
BadContent ==
    /\ Asking /\ clock # "wrong" /\ Len(faults) < MaxFaults /\ Serves(Ask.doc) /\ Ask.bad # "keep"
    /\ Dispose(Ask.bad) /\ faults' = Append(faults, "bad")
    /\ UNCHANGED <<crawler, published, clock>>

(* A request signed by a wrong clock is refused; the date of the answer, if  *)
(* it has one, puts the next ones right (OauthUrlHelper.exception_cb).       *)
Refused ==
    /\ Asking /\ clock = "wrong"
    /\ Again("401", Ask.fails)
    /\ \/ clock' = "known" /\ faults' = faults
       \/ Len(faults) < MaxFaults /\ clock' = clock /\ faults' = Append(faults, "undated")
    /\ UNCHANGED <<crawler, published>>

\* GCE decodes user-data it may not have, SmartOS writes below a directory named by
\* an id it may not have.
EndRaises ==
    \/ crawler = "GCE" /\ "user-data-encoding" \in got /\ "user-data" \notin got
    \/ crawler = "SmartOS" /\ "sdc:uuid" \notin got

EndOfCrawl ==
    /\ outcome = "crawling" /\ asks = <<>>
    /\ outcome' = IF EndRaises THEN "raised" ELSE "found"
    /\ UNCHANGED <<crawler, published, asks, tried, got, clock, faults>>

CrawlStep == Reply \/ NotFound \/ Fault \/ Hang \/ BadContent \/ Refused \/ EndOfCrawl

----------------------------------------------------------------------------
\* The tree that is to be read: what is reached from its root.
Reached(set) == Root \in set /\ \A d \in set \cap DOMAIN Tree : \A e \in ToSet(Tree[d]) : e.name \notin LeftOut => e.path \in set
TheTree == {d \in TreeDocs : \A set \in SUBSET TreeDocs : Reached(set) => d \in set}

\* The keys of SmartOS whose frames lost their SUCCESS: they are taken for not set.
TakenForAbsent == IF crawler = "SmartOS" THEN ToSet(faults) ELSE {}

\* Nothing is found in part: a tree of metadata is all there or not at all, and so are
\* the documents of a service whose datasource does not take a failure for an absence -
\* SmartOS does so with each key whose frame is broken and does not say SUCCESS any more -
\* the files the metadata names, and a password that was acknowledged.
NeverInPart ==
    outcome = "found" =>
        /\ got \cap TreeDocs # {} => got \cap TreeDocs = TheTree
        /\ crawler \in Strict => published \subseteq got \cup TakenForAbsent
        /\ published \cap Contents \subseteq got
        /\ "password" \in got <=> "saved_password" \in got

(* Why it holds, as an inductive invariant.                                  *)
Have == got \cap TreeDocs
Pending == DocsOf(asks) \cap TreeDocs

\* The requests a crawl can come to.
AllAsks ==
    ToSet(Requests(crawler, published))
        \cup (IF Root \in DocsOf(Requests(crawler, published)) THEN {Branch(d) : d \in TreeDocs} ELSE {})
        \cup (IF "password" \in DocsOf(Requests(crawler, published)) THEN {Acknowledge} ELSE {})

\* Of a tree there is nothing, or all that is listed by what there is, but for what is
\* still to be asked for; by then it is known which version it is of.
TreeInv ==
    /\ \A k \in DOMAIN asks : asks[k].doc = "version" => k = 1
    /\ \/ Have = {} /\ Pending \subseteq {Root}
       \/ /\ Root \in Have /\ "version" \notin DocsOf(asks) /\ Have \cup Pending \subseteq TheTree
          /\ \A d \in Have \cap DOMAIN Tree : \A e \in ToSet(Tree[d]) :
               e.name \notin LeftOut => e.path \in Have \cup Pending

\* What must not be missing has been read or is still to be asked for.
NothingLost ==
    /\ published \cap Contents \subseteq got \cup DocsOf(asks)
    /\ crawler \in Strict => published \subseteq got \cup DocsOf(asks) \cup TakenForAbsent

PasswordInv ==
    /\ "saved_password" \in got \cup DocsOf(asks) => "password" \in got
    /\ "password" \in got => "saved_password" \in got \cup DocsOf(asks)

\* MAAS alone asks with the time.
ClockInv == clock # "right" => crawler = "MAAS"

CrawlInv ==
    /\ crawler \in Crawlers /\ published \in Offers[crawler] /\ asks \in Seq(AllAsks)
    /\ outcome \in {"crawling", "found"} => TreeInv /\ NothingLost /\ PasswordInv
    /\ outcome = "found" => asks = <<>>

\* A machine that does not crawl.
NoCrawler == crawler = "none" /\ published = {} /\ got = {} /\ outcome = "found" /\ clock = "right"

\* Faults that no document is lost to - MAAS asks twice for what is not there, and keeps
\* the second answer - and documents that are asked for only once.
PatienceOf(by, offer) ==
    CASE by \in {"Ec2", "AliYun", "CloudStack", "DigitalOcean", "OpenStack"} -> Retries
      [] by = "MAAS" -> IF {"public-keys", "vendor-data", "user-data"} \subseteq offer THEN 1 ELSE 0
      [] by = "Scaleway" -> Ports - 1
      [] OTHER -> 0
Patience == IF crawler = "OpenStack" /\ "timeout" \in ToSet(faults) THEN 0 ELSE PatienceOf(crawler, published)
AskedOnce(by) ==
    CASE by = "Ec2" -> {"version"}
      [] by = "CloudStack" -> {"password", "saved_password"}
      [] OTHER -> {}

\* A service has what its datasource requires, and nothing that is not asked for.
ASSUME OffersAssumption ==
    \A c \in Crawlers : \A o \in Offers[c] :
        /\ \A a \in ToSet(Requests(c, o)) : a.gone \in {"no", "raise"} => a.doc \in o
        /\ o \ (AskedOnce(c) \cup ToSet(OsVersions)) \subseteq DocsOf(Requests(c, o))
        /\ \A doc \in o \cap OpenStackDocs : Since(doc) <= FindWorkingVersion(o)
        /\ c = "GCE" /\ "user-data-encoding" \in o => "user-data" \in o
        /\ c = "SmartOS" => "sdc:uuid" \in o

Few == Len(faults) <= Patience /\ ToSet(faults) \cap {"bad", "hang"} = {}
Wanted == published \ (AskedOnce(crawler) \cup ToSet(OsVersions))

\* A service that has what its datasource requires is read, and all it has, whatever
\* requests fail in whatever order, as long as they are no more than the retries, each is
\* answered, and no content is bad.
FewFaultsCostNothing ==
    outcome # "crawling" /\ Few =>
        /\ outcome = "found"
        /\ Wanted \subseteq got
        /\ "meta-data/" \in published => TheTree \subseteq got

\* As long as the faults are few, what is wanted is read or still to be asked for, and a
\* document that is there has been tried as often as there were faults: but for the first
\* of MAAS, which a wrong clock costs one.
ReadInv == outcome \in {"crawling", "found"} /\ Wanted \subseteq got \cup DocsOf(asks)
TriedInv ==
    Asking /\ (Serves(Ask.doc) \/ "404" \in Ask.stop) =>
        tried <= Len(faults) + IF clock = "known" /\ asks = Requests(crawler, published) THEN 1 ELSE 0

FaultKinds == {"error", "timeout", "hang", "bad", "undated"} \cup DocsOf(SmartOSCrawl)
FewInv ==
    /\ faults \in Seq(FaultKinds) /\ tried \in Nat /\ got \subseteq published \cup TreeDocs
    /\ clock = "wrong" /\ outcome = "crawling" => asks = Requests(crawler, published)
    /\ Few => ReadInv /\ TriedInv
=============================================================================
