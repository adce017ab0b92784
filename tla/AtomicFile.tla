----------------------------- MODULE AtomicFile -----------------------------
(***************************************************************************)
(* What callers of `write_private_file` are promised (src/private_file.rs, *)
(* the doc comment of the function): a file that is replaced in one step,  *)
(* whose content is always the whole of something that was written to it,  *)
(* and a call that returns only after its effect is decided.               *)
(*                                                                         *)
(* `file` is what a reader of the path sees, `stable` what a reader would  *)
(* see after a power loss.  A content is named by the call that wrote it;  *)
(* Old is the content the path had before, None says that no file exists.  *)
(***************************************************************************)
CONSTANTS Calls, Old, None

VARIABLES file, stable, result

avars == <<file, stable, result>>

Content == Calls \cup {Old, None}

Result == {"running", "published", "ok", "warned", "err", "dead"}

Live == {"running", "published"}

Init == /\ file \in {Old, None}
        /\ stable = file
        /\ result = [c \in Calls |-> "running"]

\* The one step by which a call takes effect.
Publish(c) == /\ result[c] = "running"
              /\ file' = c
              /\ result' = [result EXCEPT ![c] = "published"]
              /\ UNCHANGED stable

\* Success without a warning: whatever is visible now survives a power loss.
ReturnOk(c) == /\ result[c] = "published"
               /\ stable' = file
               /\ result' = [result EXCEPT ![c] = "ok"]
               /\ UNCHANGED file

\* Success with the warning that the file may not survive a crash.
ReturnWarned(c) == /\ result[c] = "published"
                   /\ result' = [result EXCEPT ![c] = "warned"]
                   /\ UNCHANGED <<file, stable>>

\* A call that fails has not touched the file.
ReturnErr(c) == /\ result[c] = "running"
                /\ result' = [result EXCEPT ![c] = "err"]
                /\ UNCHANGED <<file, stable>>

Die(c) == /\ result[c] \in Live
          /\ result' = [result EXCEPT ![c] = "dead"]
          /\ UNCHANGED <<file, stable>>

\* The system writes back at any time.
Persist == /\ stable' = file
           /\ UNCHANGED <<file, result>>

PowerLoss == /\ file' = stable
             /\ result' = [c \in Calls |-> IF result[c] \in Live THEN "dead" ELSE result[c]]
             /\ UNCHANGED stable

Next == \/ \E c \in Calls : \/ Publish(c) \/ ReturnOk(c) \/ ReturnWarned(c)
                            \/ ReturnErr(c) \/ Die(c)
        \/ Persist
        \/ PowerLoss

Spec == Init /\ [][Next]_avars
=============================================================================
