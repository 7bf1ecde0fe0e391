----------------------------- MODULE ConfigFiles -----------------------------
(***************************************************************************)
(* What a config module does to the machine, as a sequence of effects.  A   *)
(* file is its path in a function; its content is a sequence of lines, a    *)
(* function (a file of settings) or a set (what a tool keeps: the packages, *)
(* keys or selections there are).  A command that may fail is an effect on  *)
(* what its tool keeps.  fails says what a failure does: nothing (files of  *)
(* the machine itself), raise, log, or "collect": raise when all is done.   *)
(***************************************************************************)
EXTENDS Naturals, Sequences, SequencesExt, TLC

CONSTANT Unset   \* a value that is not given

Get(r, k, default) == IF k \in DOMAIN r THEN r[k] ELSE default
Given(r, k) == k \in DOMAIN r /\ r[k] # Unset
Without(r, ks) == [k \in DOMAIN r \ ks |-> r[k]]

\* One setting; and those of r, and of s where r has none.
One(k, value) == [only \in {k} |-> value]
r ++ s == [k \in DOMAIN r \cup DOMAIN s |-> IF k \in DOMAIN r THEN r[k] ELSE s[k]]

Effect(op, path, what, fails) == [op |-> op, path |-> path, what |-> what, fails |-> fails]

Write(path, what) == Effect("write", path, what, "no")
AppendTo(path, lines) == Effect("append", path, lines, "no")
Settings(path, fn) == Effect("set", path, fn, "no")
Move(from, to) == Effect("move", from, to, "no")
Copy(from, to) == Effect("copy", from, to, "no")
Delete(path) == Effect("remove", path, Unset, "no")

(* A command, and what it adds to what its tool keeps.                      *)
Run(path, set) == Effect("add", path, set, "raise")
Attempt(path, set) == Effect("add", path, set, "log")
Collect(path, set) == Effect("add", path, set, "collect")
RunSettings(path, fn) == Effect("set", path, fn, "raise")
Service(name) == Run(<<"services">>, {name})

(* An error of the module's own; and the point at which it reads what the   *)
(* effects so far have made.                                                *)
Raise == Effect("raise", <<>>, Unset, "no")
Resume == Effect("resume", <<>>, Unset, "no")

If(c, effects) == IF c THEN effects ELSE <<>>

(* The files after an effect.                                               *)
Put(f, p, what) == [q \in DOMAIN f \cup {p} |-> IF q = p THEN what ELSE f[q]]
Applied(f, e) ==
    CASE e.op = "write" -> Put(f, e.path, e.what)
      [] e.op = "append" -> Put(f, e.path, Get(f, e.path, <<>>) \o e.what)
      [] e.op = "add" -> Put(f, e.path, Get(f, e.path, {}) \cup e.what)
      [] e.op = "set" -> Put(f, e.path, e.what ++ Get(f, e.path, <<>>))
      [] e.op = "move" -> Put(Without(f, {e.path}), e.what, f[e.path])
      [] e.op = "copy" -> Put(f, e.what, f[e.path])
      [] e.op = "remove" -> Without(f, {e.path})
=============================================================================
