------------------------------- MODULE Services -------------------------------
(***************************************************************************)
(* What a machine has to do with the services that describe it: it waits     *)
(* for one without a network of its own (Metadata), it crawls what one       *)
(* publishes (Crawl), or it negotiates with the fabric of Azure (Fabric).    *)
(* A machine does one of them; the others are over.                         *)
(***************************************************************************)
EXTENDS Metadata, Crawl, Fabric

NoWaiting ==
    /\ pc = "done" /\ nic = [up |-> FALSE, address |-> FALSE, route |-> FALSE] /\ before = nic
    /\ cleanup = <<>> /\ failed = "nothing" /\ result = "none" /\ now = 0 /\ maxwait = 0 /\ timeout = 0
    /\ loop = 0 /\ at = 1 /\ tries = 0 /\ service = <<>>
NoCrawl ==
    /\ crawler = "none" /\ published = {} /\ asks = <<>> /\ tried = 0 /\ got = {}
    /\ outcome = "found" /\ clock = "right" /\ faults = <<>>
NoAzure ==
    /\ stage = "end" /\ given = "none" /\ cdrom = FALSE /\ kept = {} /\ settings = NoSettings
    /\ builtin = FALSE /\ bounces = "no" /\ host = "image" /\ previous = "" /\ private = FALSE
    /\ waits = 0 /\ incarnation = 1 /\ certificates = FALSE /\ goal = 0 /\ keys = {} /\ ready = 0
    /\ files = FALSE /\ negotiated = FALSE /\ tripped = "nothing" /\ boot = Boots

ServicesInit ==
    \/ Init /\ NoCrawl /\ NoAzure
    \/ NoWaiting /\ CrawlInit /\ NoAzure
    \/ NoWaiting /\ NoCrawl /\ AzureInit

services == <<vars, crawling, azure>>

WaitStep == Step /\ UNCHANGED <<crawling, azure>>
ReadStep == CrawlStep /\ UNCHANGED <<vars, azure>>
FabricStep == AzureStep /\ UNCHANGED <<vars, crawling>>
PlatformStep == (NewGoal \/ NextBoot) /\ UNCHANGED <<vars, crawling>>

\* A request without a timeout is not answered.
Hangs == pc = "hangs" \/ outcome = "hangs"

\* get_data is over, and there is no other boot.
Over == pc = "done" /\ outcome \notin {"crawling", "hangs"} /\ stage = "end"
Rest == (Over \/ Hangs) /\ UNCHANGED services

ServicesNext == WaitStep \/ ReadStep \/ FabricStep \/ PlatformStep \/ Rest

\* The process is scheduled, a command returns, and a request that is given a timeout ends;
\* one that is not may hang instead (VersionHangs, Hang).  The fabric need have no new goal,
\* and the machine need not be booted again.
ServicesSpec ==
    /\ ServicesInit /\ [][ServicesNext]_services
    /\ WF_services(WaitStep) /\ WF_services(ReadStep) /\ WF_services(FabricStep)

----------------------------------------------------------------------------
\* However the services behave, get_data ends: no retry, no wait for a service and no
\* wait for files is for ever, whatever fails - or it waits for the answer to one of the
\* requests that have no timeout: those of GCE, Bigstep and SmartOS, that of Ec2 for the
\* extended version, and those of MAAS once its service has answered.
Terminates == <>[](Over \/ Hangs)

\* The wait for a service gives up in time, and not before a service that answers has
\* been asked.
WaitIsFair == GivesUpInTime /\ ServiceIsFound

\* What an Azure machine knows of itself lasts, and what it says of itself is true.
AzureIsServed == RestIsKept /\ ReadyHasKeys

\* "Upon context exit, clean up": neither the address and route of a lease, nor a temporary
\* host name, nor the private key of the fabric's certificates outlives what it was for.
\* There are two sorts of exceptions: the command that would have undone it failed, or was
\* to come after one that did; and two contexts that are not left because they were not
\* entered: an address stays whose link or route could not be set (NotEntered), and what
\* there is of a key whose certificate could not be made (KeyNotMade).
NothingStays == NothingLeftBehind /\ NameIsRestored

\* A machine that does not wait has nothing to clean up.
Idle == pc = "done" /\ result = "none" /\ failed = "nothing" /\ nic = before
WaitInv == Idle \/ MetadataInv

\* Nor has one that does not crawl anything to miss.
ReadingInv == (NoCrawler \/ (CrawlInv /\ FewInv)) /\ ClockInv
=============================================================================
