-------------------------- MODULE DeliveryPromise ---------------------------
(***************************************************************************)
(* What MeshtasticPass promises about an outgoing message, with no thread, *)
(* queue, generation or database in sight: the delivery mark the user sees *)
(* is never more than what is known, an answered message is never reopened *)
(* except by an explicit resend (and a "sent" one, once, by the program's  *)
(* late note that it has left), and only a message that failed or was      *)
(* given up can be resent or deleted.                                      *)
(***************************************************************************)
CONSTANTS
  Messages,
  Outcomes   \* what can become known of a message: mesh responses, refusals

VARIABLES
  status,    \* the mark of each message
  known,     \* everything that has become known of it
  fresh      \* the program has not yet noted that its last send left

Statuses == {"none", "open", "sent", "heard", "failed", "unknown", "gone"}

Init ==
  /\ status = [m \in Messages |-> "none"]
  /\ known = [m \in Messages |-> {}]
  /\ fresh = [m \in Messages |-> FALSE]

(* A new message goes out, or is cut short at once.                        *)
Compose(m) == status[m] = "none" /\ status'[m] \in {"open", "unknown"}

(* An answer is shown only when it is known.  A refusal can follow an      *)
(* implicit ack; a remote ack and a refusal are final.                     *)
Confirm(m) ==
  \/ /\ status[m] \in {"open", "unknown"}
     /\ "implicit" \in known[m] /\ status'[m] = "sent"
  \/ /\ status[m] \in {"open", "unknown", "sent"}
     /\ "remote" \in known[m] /\ status'[m] = "heard"
  \/ /\ status[m] \in {"open", "unknown", "sent"}
     /\ known[m] \cap {"nak", "refused"} # {} /\ status'[m] = "failed"

(* The note that a send has left comes after its first answer: "sent" is   *)
(* taken back, once for each send.                                         *)
Reopen(m) ==
  /\ fresh[m] /\ status[m] = "sent"
  /\ status'[m] = "open" /\ ~fresh'[m]

(* A timeout, a shutdown, a crash.                                         *)
GiveUp(m) == status[m] = "open" /\ status'[m] = "unknown"

Resend(m) == status[m] \in {"unknown", "failed"} /\ status'[m] = "open"

Delete(m) == status[m] \in {"unknown", "failed"} /\ status'[m] = "gone"

Step(m) ==
  \/ Compose(m) \/ Confirm(m) \/ Reopen(m) \/ GiveUp(m)
  \/ Resend(m) \/ Delete(m)

(* One event may settle several messages at once (a crash, a timer tick).  *)
Next ==
  /\ status' \in [Messages -> Statuses]
  /\ known' \in [Messages -> SUBSET Outcomes]
  /\ fresh' \in [Messages -> BOOLEAN]
  /\ \A m \in Messages :
       /\ known[m] \subseteq known'[m]
       /\ status'[m] = status[m] \/ Step(m)
       /\ fresh'[m] => fresh[m] \/ Compose(m) \/ Resend(m)

Spec == Init /\ [][Next]_<<status, known, fresh>>
=============================================================================
