------------------------------- MODULE Upload --------------------------------
(***************************************************************************)
(* What UploadFile promises of a set of files, whatever the driver: the    *)
(* server's file is nothing or the whole local file, nil means that it is  *)
(* whole, and a local file is removed only then.                           *)
(*                                                                         *)
(* One exception is part of the promise: a server may refuse with an       *)
(* answer the client takes for success (overlooked).                       *)
(***************************************************************************)
CONSTANTS Files, NoFile  \* NoFile is no member of Files

VARIABLES
  local,       \* files that exist locally
  stored,      \* server: "none" or "whole" of each file
  overlooked,  \* files with a refusal that was taken for success
  doing,       \* the file of the call in flight, or NoFile
  result       \* what the last call returned

uvars == <<local, stored, overlooked, doing, result>>

Init ==
  /\ local = Files /\ stored = [f \in Files |-> "none"]
  /\ overlooked = {} /\ doing = NoFile /\ result = "none"

Call(f) ==
  /\ doing = NoFile
  /\ doing' = f /\ result' = "none"
  /\ UNCHANGED <<local, stored, overlooked>>

(* The server may get the file from the call in flight only. *)
Store(s) == stored' = s /\ \A f \in Files : s[f] = stored[f] \/ (f = doing /\ s[f] = "whole")

Work ==
  /\ doing # NoFile
  /\ \E s \in [Files -> {"none", "whole"}] : Store(s)
  /\ UNCHANGED <<local, overlooked, doing, result>>

Overlook ==
  /\ doing # NoFile
  /\ overlooked' = overlooked \cup {doing}
  /\ UNCHANGED <<local, stored, doing, result>>

Fail ==
  /\ doing # NoFile
  /\ doing' = NoFile /\ result' = "error"
  /\ \E s \in [Files -> {"none", "whole"}] : Store(s)
  /\ UNCHANGED <<local, overlooked>>

(* nil; SuccessDel removes the local file. *)
Succeed ==
  /\ doing # NoFile
  /\ doing' = NoFile /\ result' = "ok"
  /\ \E s \in [Files -> {"none", "whole"}] : Store(s)
  /\ overlooked' \in {overlooked, overlooked \cup {doing}}
  /\ stored'[doing] = "whole" \/ doing \in overlooked'
  /\ local' \in {local, local \ {doing}}

Next == (\E f \in Files : Call(f)) \/ Work \/ Overlook \/ Fail \/ Succeed

Spec == Init /\ [][Next]_uvars
==============================================================================
