------------------------------ MODULE Mailboxes ------------------------------
(***************************************************************************)
(* What the cognitive bus promises, without saying how: every agent has a  *)
(* mailbox; an event is put into an agent's mailbox at most once, leaves   *)
(* it at most once, and either reaches the agent or is lost, never both.   *)
(*                                                                         *)
(*   pending    the events waiting in each agent's mailbox                 *)
(*   delivered  the events each agent has received                         *)
(*   lost       the events that left a mailbox without being received      *)
(***************************************************************************)
CONSTANTS Agents,   (* the agents that own a mailbox                       *)
          EventIds  (* the identities of the events                        *)

VARIABLES pending, delivered, lost

mailVars == <<pending, delivered, lost>>

\* The events that ever reached the mailbox of a.
Seen(a) == pending[a] \cup delivered[a] \cup lost[a]

MailInit ==
    /\ pending   = [a \in Agents |-> {}]
    /\ delivered = [a \in Agents |-> {}]
    /\ lost      = [a \in Agents |-> {}]

(***************************************************************************)
(* One event is put into the mailboxes of some agents.  None of them has   *)
(* seen it before; a mailbox that is full gives up some of its content.    *)
(***************************************************************************)
Route(e, to) ==
    /\ \A a \in to : e \notin Seen(a)
    /\ \E gone \in [to -> SUBSET EventIds] :
         /\ \A a \in to : gone[a] \subseteq pending[a]
         /\ pending' = [a \in Agents |-> IF a \in to
                           THEN (pending[a] \ gone[a]) \cup {e}
                           ELSE pending[a]]
         /\ lost' = [a \in Agents |-> IF a \in to
                           THEN lost[a] \cup gone[a]
                           ELSE lost[a]]
    /\ UNCHANGED delivered

\* The agent collects some of its mail.
Collect(a, batch) ==
    /\ batch \subseteq pending[a]
    /\ pending'   = [pending   EXCEPT ![a] = @ \ batch]
    /\ delivered' = [delivered EXCEPT ![a] = @ \cup batch]
    /\ UNCHANGED lost

\* The mailbox is closed or replaced: what waits in it is lost.
Discard(a) ==
    /\ pending' = [pending EXCEPT ![a] = {}]
    /\ lost'    = [lost    EXCEPT ![a] = @ \cup pending[a]]
    /\ UNCHANGED delivered

MailNext ==
    \/ \E e \in EventIds, to \in SUBSET Agents : Route(e, to)
    \/ \E a \in Agents : \E batch \in SUBSET pending[a] : Collect(a, batch)
    \/ \E a \in Agents : Discard(a)

MailSpec == MailInit /\ [][MailNext]_mailVars
=============================================================================
