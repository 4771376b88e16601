--------------------------- MODULE CommandService ---------------------------
(***************************************************************************)
(* What the daemon promises a client about one mutating command, without   *)
(* sockets, journals or crashes: it runs at most once, whatever the client *)
(* is told; a response the client is given is the one this run produced;   *)
(* and the client is told once.  A client that is told anything else - the *)
(* result is uncertain, the command was refused, no answer came in time -  *)
(* learns nothing about whether the command ran or will still run.         *)
(***************************************************************************)
CONSTANTS Key, Response, None

VARIABLES
  asked,    \* the commands the client has sent
  runs,     \* how often each command was started
  answer,   \* what its run has answered, None before that
  verdict   \* what the client's promise settled with, None before that

serviceVars == << asked, runs, answer, verdict >>

NoAnswer == {"uncertain", "refused", "timedout", "lost"}

Ask(k) == /\ k \notin asked
          /\ asked' = asked \union {k}
          /\ UNCHANGED << runs, answer, verdict >>

Run(k) == /\ k \in asked /\ runs[k] = 0
          /\ runs' = [runs EXCEPT ![k] = 1]
          /\ UNCHANGED << asked, answer, verdict >>

Finish(k, r) == /\ runs[k] = 1 /\ answer[k] = None
                /\ answer' = [answer EXCEPT ![k] = r]
                /\ UNCHANGED << asked, runs, verdict >>

(* Connection loss can settle several promises in one step. *)
Settle(K) == /\ K \subseteq asked /\ \A k \in K : verdict[k] = None
             /\ \E v \in [K -> NoAnswer \union Response] :
                  /\ \A k \in K : v[k] \in Response => v[k] = answer[k]
                  /\ verdict' = [k \in Key |-> IF k \in K THEN v[k] ELSE verdict[k]]
             /\ UNCHANGED << asked, runs, answer >>

ServiceInit == /\ asked = {}
               /\ runs = [k \in Key |-> 0]
               /\ answer = [k \in Key |-> None]
               /\ verdict = [k \in Key |-> None]

ServiceNext == \/ \E k \in Key : Ask(k) \/ Run(k) \/ \E r \in Response : Finish(k, r)
               \/ \E K \in SUBSET Key : Settle(K)

ServiceSpec == ServiceInit /\ [][ServiceNext]_serviceVars
=============================================================================
