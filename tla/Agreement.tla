----------------------------- MODULE Agreement -----------------------------
(***************************************************************************)
(* What a handshake promises, without any mention of keys, transcripts or  *)
(* messages: one party asks another for a session under a secret, only the *)
(* party that was asked joins, with the secret of the one who asked, a     *)
(* token is spent on one session only, and whoever asked knows of no       *)
(* session that was not joined.  Handshake is shown to implement it.       *)
(***************************************************************************)

CONSTANT Parties

VARIABLES
    asked,      \* sessions that were asked for: [sid, from, to, secret]
    joined,     \* who joined which, and the tokens it spent: [session, spent]
    known       \* sessions the party that asked knows to be joined

Init == asked = {} /\ joined = {} /\ known = {}

\* No two sessions have an id or a secret in common.
Ask(s) ==
    /\ s.from \in Parties /\ s.to \in Parties
    /\ \A t \in asked : t.sid # s.sid /\ t.secret # s.secret
    /\ asked' = asked \cup {s}
    /\ UNCHANGED <<joined, known>>

Join(j) ==
    /\ j.session \in asked
    /\ \A i \in joined : i.spent \cap j.spent = {}
    /\ joined' = joined \cup {j}
    /\ UNCHANGED <<asked, known>>

Learn(s) ==
    /\ s \in asked
    /\ \E j \in joined : j.session = s
    /\ known' = known \cup {s}
    /\ UNCHANGED <<asked, joined>>

Next ==
    \/ \E s \in asked' : Ask(s)
    \/ \E j \in joined' : Join(j)
    \/ \E s \in known' : Learn(s)

Spec == Init /\ [][Next]_<<asked, joined, known>>
=============================================================================
