----------------------------- MODULE FileStore -----------------------------
(***************************************************************************)
(* What fat16.h promises its callers: a store of files and directories, in *)
(* which a call that returns success has had its effect, with its own      *)
(* argument, on the one object it names, and no call touches another one.  *)
(* A call that fails leaves its object as it was, with two exceptions that *)
(* the driver makes when it runs out of space.  An overwrite leaves the    *)
(* file "torn", its bytes unknown, until it is overwritten or deleted.  An *)
(* append leaves it "frayed": it still holds its bytes, but the next       *)
(* append tears it.  A call during which the disk fails may tear its       *)
(* object whatever it returns.                                             *)
(***************************************************************************)
EXTENDS Sequences

CONSTANTS Objects, Payloads

VARIABLES
  store,    \* what each object is
  call,     \* the call in progress
  result,   \* what the last call returned
  failed    \* the disk has reported an error

vars == <<store, call, result, failed>>

Object(kind, bytes) == [kind |-> kind, bytes |-> bytes]
Torn == Object("torn", <<>>)

Calls ==
  [op : {"create", "write", "append", "mkdir", "delete"}, obj : Objects,
   bytes : Payloads \cup {<<>>}]

NoCall == [op |-> "none"]

Init ==
  /\ store = [k \in Objects |-> Object("none", <<>>)]
  /\ call = NoCall /\ result = "none" /\ failed = FALSE

\* A call c that returns success turns its object from old into new.
Effect(c, old, new) ==
  \/ c.op = "create" /\ old.kind = "none" /\ new = Object("file", <<>>)
  \/ c.op = "mkdir" /\ old.kind = "none" /\ new = Object("dir", <<>>)
  \/ c.op = "write" /\ old.kind # "dir" /\ new = Object("file", c.bytes)
  \/ /\ c.op = "append" /\ old.kind \in {"none", "file"}
     /\ new = Object("file", old.bytes \o c.bytes)
  \/ /\ c.op = "append" /\ old.kind \in {"frayed", "torn"}
     /\ new = IF c.bytes = <<>> THEN old ELSE Torn
  \/ c.op = "delete" /\ old.kind # "none" /\ new = Object("none", <<>>)

\* A call c that returns an error leaves its object, that was old, as new.
Aftermath(c, old, new) ==
  \/ new = old
  \/ /\ c.op \in {"write", "append"} /\ old.kind = "none"
     /\ new = Object("file", <<>>)
  \/ c.op = "write" /\ old.kind \in {"file", "frayed", "torn"} /\ new = Torn
  \/ /\ c.op = "append" /\ old.kind \in {"file", "frayed"}
     /\ new = Object("frayed", old.bytes)

DiskTore(new) == failed' /\ new = Torn

OnlyObject(k) == \A j \in Objects \ {k} : store'[j] = store[j]

Begin ==
  /\ call = NoCall /\ call' \in Calls /\ result' = "none"
  /\ \/ store'[call'.obj] = store[call'.obj]
     \/ DiskTore(store'[call'.obj])
  /\ OnlyObject(call'.obj)

Succeed ==
  /\ call # NoCall /\ call' = NoCall /\ result' = "ok"
  /\ \/ Effect(call, store[call.obj], store'[call.obj])
     \/ DiskTore(store'[call.obj])
  /\ OnlyObject(call.obj)

Fail ==
  /\ call # NoCall /\ call' = NoCall /\ result' = "error"
  /\ \/ Aftermath(call, store[call.obj], store'[call.obj])
     \/ DiskTore(store'[call.obj])
  /\ OnlyObject(call.obj)

DiskFails ==
  /\ call # NoCall /\ UNCHANGED <<call, result>>
  /\ failed'
  /\ store'[call.obj] \in {store[call.obj], Torn}
  /\ OnlyObject(call.obj)

Refuse == call = NoCall /\ result' = "error" /\ UNCHANGED <<store, call>>

Next ==
  /\ Begin \/ Succeed \/ Fail \/ DiskFails \/ Refuse
  /\ failed => failed'

Spec == Init /\ [][Next]_vars
=============================================================================
