------------------------------ MODULE Approval ------------------------------
(***************************************************************************)
(* What Acid Judge promises, whoever judges: a client asks with a request  *)
(* that approves some bytes for each part of a tool, its entry and the     *)
(* modules it imports by name.  From then until the answer nothing of the  *)
(* tool runs but approved bytes, nothing runs when no request is open, and *)
(* PASS says that the entry did run.  How the bytes are found, compared,   *)
(* pinned and sealed is left to the specifications that implement this.    *)
(***************************************************************************)
CONSTANTS
  Clients,      \* whoever asks, each one request at a time
  Parts,        \* the names a tool's code is reached under
  Entry,        \* the part that is called
  Bytes         \* what files may contain

VARIABLES
  asked,        \* [Clients -> Request], the request last made
  open,         \* the clients without an answer
  ran,          \* the parts that ran for it in the process at work
  answer        \* the answer to it

promise == <<asked, open, ran, answer>>

Request == [Parts -> SUBSET Bytes]
Answers == {"none", "PASS", "FAIL", "SKIPPED", "raised"}

ApprovalInit ==
  /\ asked \in [Clients -> Request]
  /\ open = {}
  /\ ran = [c \in Clients |-> {}]
  /\ answer = [c \in Clients |-> "none"]

OthersWait(c) ==
  /\ asked' \in [Clients -> Request]
  /\ \A d \in Clients \ {c} :
       /\ asked'[d] = asked[d] /\ (d \in open' <=> d \in open)
       /\ ran'[d] = ran[d] /\ answer'[d] = answer[d]

(* Bytes that may run for c now, once the request is what it is now. *)
RanApproved(c) == \A p \in ran'[c] : p[2] \in asked'[c][p[1]]

(* A request; the entry may be presented with it, imported already.  One   *)
(* that cannot be judged is answered at once, with less than a PASS.       *)
Ask(c) ==
  /\ c \notin open
  /\ OthersWait(c)
  /\ RanApproved(c)
  /\ IF c \in open' THEN answer'[c] = "none"
     ELSE answer'[c] \in Answers \ {"none", "PASS"}

(* Approved bytes run, or nothing does, in the process at work or in a     *)
(* fresh one, which has run nothing yet; the request is answered, or not.  *)
Run(c) ==
  /\ c \in open
  /\ OthersWait(c)
  /\ asked'[c] = asked[c]
  /\ \/ ran[c] \subseteq ran'[c]
     \/ c \in open' /\ ran'[c] = {}
  /\ RanApproved(c)
  /\ \/ c \in open' /\ answer'[c] = answer[c]
     \/ /\ c \notin open'
        /\ answer'[c] \in Answers \ {"none"}
        /\ answer'[c] = "PASS" => \E p \in ran'[c] : p[1] = Entry

ApprovalNext == \E c \in Clients : Ask(c) \/ Run(c)

ApprovalSpec == ApprovalInit /\ [][ApprovalNext]_promise
=============================================================================
