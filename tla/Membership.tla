----------------------------- MODULE Membership -----------------------------
(***************************************************************************)
(* What AND promises the application about a neighbour of a world, without *)
(* messages, connections or the ten states of an entry.  For each world    *)
(* and peer there is the session that waits for an answer, the session     *)
(* that is a member, and what the events have told the application.        *)
(***************************************************************************)
EXTENDS Integers

CONSTANTS
    Worlds,     \* the worlds of the application
    Peers,      \* the other hosts
    Sessions,   \* their sessions
    Nil,        \* no session
    TimeOf      \* the creation time of a session

VARIABLES
    view,       \* what the events say: a state and a session
    pending,    \* the session that the application is asked about, or Nil
    member      \* the session that is a member, or Nil

mvars == <<view, pending, member>>

Says(st, s) == [st |-> st, sid |-> s]

Idle == Says("idle", Nil)

\* The three records about peer p of world l after a step.
Becomes(l, p, v, w, m) == view'[l][p] = v /\ pending'[l][p] = w /\ member'[l][p] = m

\* Session s gives way: to nobody, or to a newer session.
GivesWay(s, t) == s # Nil => TimeOf[s] < TimeOf[t]

-----------------------------------------------------------------------------
\* A request event.  It may take the place of an unanswered request or, with a
\* leave event before it, of a member, if that is of an older session.
Request(l, p, s) ==
    /\ GivesWay(pending[l][p], s) /\ GivesWay(member[l][p], s)
    /\ Becomes(l, p, Says("requested", s), s, Nil)

\* A ready event, for the session that was asked about and is not withdrawn.
Ready(l, p) ==
    /\ pending[l][p] # Nil
    /\ Becomes(l, p, Says("ready", pending[l][p]), Nil, pending[l][p])

\* A leave event, of a member.
Leave(l, p) == member[l][p] # Nil /\ Becomes(l, p, Idle, Nil, Nil)

\* A request is withdrawn; there is no event for it.
Withdraw(l, p) == pending[l][p] # Nil /\ Becomes(l, p, view[l][p], Nil, Nil)

Stay(l, p) == Becomes(l, p, view[l][p], pending[l][p], member[l][p])

Init ==
    /\ view = [l \in Worlds |-> [p \in Peers |-> Idle]]
    /\ pending = [l \in Worlds |-> [p \in Peers |-> Nil]]
    /\ member = [l \in Worlds |-> [p \in Peers |-> Nil]]

\* A call of AND may touch every world and every peer, each of them once.
Next ==
    \A l \in Worlds, p \in Peers :
        \/ Ready(l, p) \/ Leave(l, p) \/ Withdraw(l, p) \/ Stay(l, p)
        \/ \E s \in Sessions : Request(l, p, s)

Spec == Init /\ [][Next]_mvars
=============================================================================
