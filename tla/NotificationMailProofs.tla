----------------------- MODULE NotificationMailProofs -----------------------
(***************************************************************************)
(* Theorems about NotificationMail, for any finite number of requests, of  *)
(* sessions that process the queue and of attempts.                        *)
(*                                                                         *)
(* The two bounds count the sessions that hold a row: what each of them    *)
(* may still add, an attempt or an acceptance, is charged when it reads    *)
(* the row, to the first of them or to an overlap.                         *)
(***************************************************************************)
EXTENDS NotificationMail, FiniteSetTheorems, TLAPS

-----------------------------------------------------------------------------
(* Types. *)

LEMMA NoSessionTyped == NoSession \in Session
BY DEF NoSession, Session, Hold

LEMMA InitTyped == Init => MailTypeOK
BY NoSessionTyped, MailBoundsAssumption
   DEF Init, MailTypeOK, RequestPC, Note, Mail, MailStatus

\* What mark_email_sent and mark_email_failed make of a row.
LEMMA NewMailFacts ==
    ASSUME MailTypeOK, NEW t \in Transactions, NEW e \in Requests
    PROVE /\ NewMail(t, e) \in Mail
          /\ NewMail(t, e).attempts = mail[e].attempts + 1
          /\ NewMail(t, e).status # "absent"
          /\ NewMail(t, e).status = "sent" => session[t].hold[e] = "id"
          /\ NewMail(t, e).status = "pending" =>
                session[t].hold[e] # "id" /\ session[t].seen[e] + 1 < max_attempts
<1> USE MailBoundsAssumption
<1> DEFINE status == CASE session[t].hold[e] = "id" -> "sent"
                    [] session[t].hold[e] = "noid" -> "failed"
                    [] OTHER -> IF session[t].seen[e] + 1 >= max_attempts
                                THEN "failed" ELSE "pending"
<1>1. session[t].seen[e] \in Nat /\ mail[e].attempts \in Nat
  BY DEF MailTypeOK, Session, Mail
<1>2. /\ status \in {"sent", "failed", "pending"}
      /\ status = "sent" => session[t].hold[e] = "id"
      /\ status = "pending" => session[t].hold[e] # "id" /\ session[t].seen[e] + 1 < max_attempts
  <2>1. CASE session[t].hold[e] = "id" BY <2>1
  <2>2. CASE session[t].hold[e] = "noid" BY <2>2
  <2>3. CASE session[t].hold[e] # "id" /\ session[t].hold[e] # "noid"
    <3>1. status = IF session[t].seen[e] + 1 >= max_attempts THEN "failed" ELSE "pending"
      BY <2>3
    <3> QED BY <1>1, <2>3, <3>1
  <2> QED BY <2>1, <2>2, <2>3
<1>3. NewMail(t, e) =
        [status |-> status, attempts |-> mail[e].attempts + 1, due |-> status # "pending"]
  BY DEF NewMail
<1>4. mail[e].attempts + 1 \in Nat BY <1>1
<1> HIDE DEF status
<1> QED BY <1>2, <1>3, <1>4 DEF Mail, MailStatus

LEMMA WrittenTyped ==
    ASSUME MailTypeOK, NEW t \in Transactions
    PROVE Written(t) \in [Requests -> Mail]
BY NewMailFacts DEF Written, MailTypeOK

LEMMA RequestTyped ==
    ASSUME MailTypeOK, NEW r \in Requests,
           Look(r) \/ Create(r) \/ Mailed(r) \/ RequestCommits(r) \/ RetryIsDue(r)
    PROVE MailTypeOK'
<1>0. /\ request[r] \in [pc : RequestPC, key : Keys \cup {NoKey}]
      /\ mail[r] \in Mail
      /\ r \in Transactions
  BY DEF MailTypeOK, Transactions
<1>1. \A pc \in RequestPC : Goes(r, pc) =>
        request' \in [Requests -> [pc : RequestPC, key : Keys \cup {NoKey}]]
  BY <1>0 DEF Goes, MailTypeOK
<1>2. CASE Look(r)
  <2>1. PICK k \in Keys \cup {NoKey} :
          request' = [request EXCEPT ![r] =
             [pc |-> IF Found(k) = {} THEN "looked"
                     ELSE IF Cardinality(Found(k)) = 1 THEN "done" ELSE "failed",
              key |-> k]]
    BY <1>2 DEF Look
  <2>2. request' \in [Requests -> [pc : RequestPC, key : Keys \cup {NoKey}]]
    BY <2>1 DEF MailTypeOK, RequestPC
  <2> QED BY <1>2, <2>2 DEF Look, MailTypeOK
<1>3. CASE Create(r)
  <2>1. PICK status \in {"absent", "pending"} :
          /\ mail' = [mail EXCEPT ![r].status = status]
          /\ Goes(r, IF inline /\ status = "pending" THEN "mailing" ELSE "flushed")
    BY <1>3 DEF Create
  <2>2. mail' \in [Requests -> Mail] BY <1>0, <2>1 DEF MailTypeOK, Mail, MailStatus
  <2>3. (IF inline /\ status = "pending" THEN "mailing" ELSE "flushed") \in RequestPC
    BY DEF RequestPC
  <2>4. request' \in [Requests -> [pc : RequestPC, key : Keys \cup {NoKey}]]
    BY <1>1, <2>1, <2>3
  <2> QED BY <1>3, <2>2, <2>4 DEF Create, MailTypeOK, Note
<1>4. CASE Mailed(r)
  <2>1. "flushed" \in RequestPC BY DEF RequestPC
  <2> QED BY <1>1, <1>4, <2>1 DEF Mailed, MailTypeOK
<1>5. CASE RequestCommits(r)
  <2>1. "done" \in RequestPC BY DEF RequestPC
  <2> QED BY <1>0, <1>1, <1>5, <2>1, WrittenTyped, NoSessionTyped DEF RequestCommits, MailTypeOK, Note
<1>6. CASE RetryIsDue(r)
  BY <1>0, <1>6 DEF RetryIsDue, MailTypeOK, Mail
<1> QED BY <1>2, <1>3, <1>4, <1>5, <1>6

LEMMA SessionTyped ==
    ASSUME MailTypeOK, NEW t \in Transactions,
           Processing(t) \/ (t \in Processors /\ ProcessorCommits(t))
    PROVE MailTypeOK'
<1> USE MailBoundsAssumption
<1>0. session[t] \in Session BY DEF MailTypeOK
<1>1. CASE Take(t)
  <2>1. [hold |-> [e \in Requests |-> IF e \in Pending(t) THEN "held" ELSE "unread"],
         seen |-> [e \in Requests |-> IF e \in Pending(t) THEN mail[e].attempts ELSE 0],
         sending |-> FALSE] \in Session
    BY DEF MailTypeOK, Session, Hold, Mail
  <2>2. \A e \in Requests : overlaps[e] + 1 \in Nat BY DEF MailTypeOK
  <2>3. overlaps' \in [Requests -> Nat] BY <1>1, <2>2 DEF Take, MailTypeOK
  <2> QED BY <1>1, <2>1, <2>3 DEF Take, MailTypeOK
<1>2. CASE Send(t)
  <2>1. PICK e \in Unsent(t), outcome \in Outcome :
          /\ session' = [session EXCEPT ![t].hold[e] = outcome, ![t].sending = TRUE]
          /\ accepted' = [accepted EXCEPT ![e] = IF outcome \in {"id", "lost"} THEN @ + 1 ELSE @]
          /\ lost' = [lost EXCEPT ![e] = IF outcome = "lost" THEN @ + 1 ELSE @]
          /\ IF outcome = "lost" THEN Fault ELSE UNCHANGED faults
    BY <1>2 DEF Send
  <2>2. e \in Requests BY DEF Unsent
  <2>3. [session[t] EXCEPT !.hold[e] = outcome, !.sending = TRUE] \in Session
    BY <1>0, <2>2 DEF Session, Hold
  <2>4. session' \in [Transactions -> Session] BY <2>1, <2>3 DEF MailTypeOK
  <2>5. accepted[e] + 1 \in Nat /\ lost[e] + 1 \in Nat BY <2>2 DEF MailTypeOK
  <2>6. accepted' \in [Requests -> Nat] BY <2>1, <2>5 DEF MailTypeOK
  <2>7. lost' \in [Requests -> Nat] BY <2>1, <2>5 DEF MailTypeOK
  <2>8. faults' \in 0..MaxFaults BY <2>1 DEF Fault, MailTypeOK
  <2> QED BY <1>2, <2>4, <2>6, <2>7, <2>8 DEF Send, MailTypeOK
<1>3. CASE Mark(t)
  <2>1. [session[t] EXCEPT !.sending = FALSE] \in Session BY <1>0 DEF Session
  <2> QED BY <1>3, <2>1 DEF Mark, MailTypeOK
<1>4. CASE Abort(t)
  <2>1. faults' \in 0..MaxFaults BY <1>4 DEF Abort, Fault, MailTypeOK
  <2>2. \A e \in Requests : lost[e] + 1 \in Nat BY DEF MailTypeOK
  <2>3. lost' \in [Requests -> Nat] BY <1>4, <2>2 DEF Abort, MailTypeOK
  <2>4. /\ request' \in [Requests -> [pc : RequestPC, key : Keys \cup {NoKey}]]
        /\ note' \in [Requests -> Note] /\ mail' \in [Requests -> Mail]
    <3>1. CASE UNCHANGED <<request, note, mail>> BY <3>1 DEF MailTypeOK
    <3>2. CASE /\ t \in Requests
               /\ Goes(t, "failed")
               /\ note' = [note EXCEPT ![t] = "none"]
               /\ mail' = [mail EXCEPT ![t].status = "absent"]
      BY <3>2 DEF Goes, MailTypeOK, RequestPC, Note, Mail, MailStatus
    <3> QED BY <1>4, <3>1, <3>2 DEF Abort
  <2> QED BY <1>4, <2>1, <2>3, <2>4, NoSessionTyped DEF Abort, MailTypeOK
<1>5. CASE ProcessorCommits(t)
  BY <1>5, WrittenTyped, NoSessionTyped DEF ProcessorCommits, MailTypeOK
<1> QED BY <1>1, <1>2, <1>3, <1>4, <1>5 DEF Processing

\* Type correctness of the queue, the sessions and the requests, for every
\* number of them.
THEOREM MailTypeCorrect == Spec => []MailTypeOK
<1>1. MailTypeOK /\ [Next]_vars => MailTypeOK'
  <2> SUFFICES ASSUME MailTypeOK, [Next]_vars PROVE MailTypeOK'
    OBVIOUS
  <2>1. CASE Next BY <2>1, RequestTyped, SessionTyped DEF Next, Transactions
  <2>2. CASE UNCHANGED vars BY <2>2 DEF vars, MailTypeOK
  <2> QED BY <2>1, <2>2
<1> QED BY InitTyped, <1>1, PTL DEF Spec

-----------------------------------------------------------------------------
(* The sessions that hold a row. *)

Holders(e) == {t \in Transactions : Holds(t, e)}
\* those whose copy the provider has not answered for with an id
Unanswered(e) == {t \in Holders(e) : session[t].hold[e] # "id"}

LEMMA FiniteHolders ==
    ASSUME NEW e \in Requests
    PROVE /\ IsFiniteSet(Holders(e)) /\ IsFiniteSet(Unanswered(e))
          /\ Cardinality(Holders(e)) \in Nat /\ Cardinality(Unanswered(e)) \in Nat
          /\ Cardinality(Unanswered(e)) <= Cardinality(Holders(e))
<1>1. IsFiniteSet(Transactions)
  BY RequestsAssumption, ProcessorsAssumption, FS_Union DEF Transactions
<1>2. Holders(e) \subseteq Transactions /\ Unanswered(e) \subseteq Holders(e)
  BY DEF Holders, Unanswered
<1>3. IsFiniteSet(Holders(e)) BY <1>1, <1>2, FS_Subset
<1> QED BY <1>2, <1>3, FS_Subset, FS_CardinalityType

LEMMA Joined ==
    ASSUME NEW S, NEW T, NEW t, IsFiniteSet(S), t \notin S, T = S \cup {t}
    PROVE Cardinality(T) = Cardinality(S) + 1
BY FS_AddElement

LEMMA Left ==
    ASSUME NEW S, NEW T, NEW t, IsFiniteSet(S), t \in S, T = S \ {t}
    PROVE Cardinality(T) = Cardinality(S) - 1
BY FS_RemoveElement

\* Where a request is, its notification and its row agree, and a session
\* holds a row only when it can see the notification.
Placed(e) ==
    /\ request[e].pc \in {"start", "looked"} =>
         note[e] = "none" /\ mail[e].attempts = 0 /\ accepted[e] = 0
    /\ note[e] # "none" => request[e].pc \in {"mailing", "flushed", "done"}
    /\ request[e].pc \in {"mailing", "flushed"} => note[e] = "flushed"
    /\ \A t \in Transactions : Holds(t, e) => Sees(t, e)

\* A status "sent", and one about to be written, was accepted.
Answered(e) ==
    /\ mail[e].status = "sent" => accepted[e] > 0
    /\ \A t \in Transactions : session[t].hold[e] = "id" => accepted[e] > 0

\* Every session that holds the row may still send it once.
Charged(e) ==
    /\ accepted[e] + Cardinality(Unanswered(e)) <= 1 + overlaps[e] + lost[e]
    /\ mail[e].status = "pending" /\ Holders(e) = {} => accepted[e] <= overlaps[e] + lost[e]

\* Every session that holds the row may still add an attempt, and one that will
\* leave it pending leaves room for another.
Counted(e) ==
    /\ mail[e].attempts + Cardinality(Holders(e)) <= max_attempts + overlaps[e]
    /\ mail[e].status = "pending" /\ Holders(e) = {} =>
         mail[e].attempts + 1 <= max_attempts + overlaps[e]
    /\ \A t \in Holders(e) :
         /\ session[t].seen[e] <= mail[e].attempts
         /\ session[t].seen[e] + 1 < max_attempts =>
              mail[e].attempts + Cardinality(Holders(e)) + 1 <= max_attempts + overlaps[e]

Sound(e) == Placed(e) /\ Answered(e) /\ Charged(e) /\ Counted(e)
AllSound == \A e \in Requests : Sound(e)

LEMMA InitSound == Init => AllSound
<1> SUFFICES ASSUME Init, NEW e \in Requests PROVE Sound(e)
  BY DEF AllSound
<1> USE MailBoundsAssumption
<1>1. \A t \in Transactions : session[t].hold[e] = "unread" BY DEF Init, NoSession
<1>2. Holders(e) = {} /\ Unanswered(e) = {} BY <1>1 DEF Holders, Unanswered, Holds
<1>3. Cardinality(Holders(e)) = 0 /\ Cardinality(Unanswered(e)) = 0 BY <1>2, FS_EmptySet
<1>4. /\ request[e].pc = "start" /\ note[e] = "none"
      /\ mail[e].status = "absent" /\ mail[e].attempts = 0
      /\ accepted[e] = 0 /\ overlaps[e] = 0 /\ lost[e] = 0
  BY DEF Init
<1>5. Placed(e) BY <1>1, <1>4 DEF Placed, Holds
<1>6. Answered(e) BY <1>1, <1>4 DEF Answered
<1>7. Charged(e) BY <1>3, <1>4 DEF Charged
<1>8. Counted(e) BY <1>2, <1>3, <1>4 DEF Counted
<1> QED BY <1>5, <1>6, <1>7, <1>8 DEF Sound

\* A step that leaves what Sound(e) reads.
LEMMA SameHolders ==
    ASSUME NEW e \in Requests,
           \A t \in Transactions : session'[t].hold[e] = session[t].hold[e]
    PROVE Holders(e)' = Holders(e) /\ Unanswered(e)' = Unanswered(e)
BY DEF Holders, Unanswered, Holds

LEMMA RequestSound ==
    ASSUME MailTypeOK, NEW e \in Requests, Sound(e), NEW r \in Requests,
           Look(r) \/ Create(r) \/ Mailed(r) \/ RetryIsDue(r)
    PROVE Sound(e)'
<1> USE MailBoundsAssumption
<1>0. /\ UNCHANGED <<session, accepted, overlaps, lost>>
      /\ mail'[e].attempts = mail[e].attempts
      /\ request \in [Requests -> [pc : RequestPC, key : Keys \cup {NoKey}]]
      /\ mail \in [Requests -> Mail] /\ note \in [Requests -> Note]
  <2>1. UNCHANGED <<session, accepted, overlaps, lost>>
    BY DEF Look, Create, Mailed, RetryIsDue
  <2>2. mail \in [Requests -> Mail] BY DEF MailTypeOK
  <2>3. mail'[e].attempts = mail[e].attempts
    <3>1. CASE Create(r) BY <2>2, <3>1 DEF Create, Mail
    <3>2. CASE RetryIsDue(r) BY <2>2, <3>2 DEF RetryIsDue, Mail
    <3>3. CASE Look(r) \/ Mailed(r) BY <3>3 DEF Look, Mailed
    <3> QED BY <3>1, <3>2, <3>3
  <2> QED BY <2>1, <2>2, <2>3 DEF MailTypeOK
<1>1. Holders(e)' = Holders(e) /\ Unanswered(e)' = Unanswered(e) BY <1>0, SameHolders
<1>2. /\ accepted[e] \in Nat /\ overlaps[e] \in Nat /\ lost[e] \in Nat /\ mail[e].attempts \in Nat
      /\ Cardinality(Holders(e)) \in Nat
  BY FiniteHolders DEF MailTypeOK, Mail
<1>3. CASE mail'[e].status = mail[e].status
  <2>1. Answered(e)' /\ Charged(e)' /\ Counted(e)'
    BY <1>0, <1>1, <1>3 DEF Sound, Answered, Charged, Counted
  <2>2. Placed(e)'
    <3>1. CASE r # e
      <4>1. request'[e] = request[e] /\ note'[e] = note[e]
        BY <1>0, <3>1 DEF Look, Create, Mailed, RetryIsDue, Goes
      <4> QED BY <1>0, <4>1 DEF Sound, Placed, Holds, Sees
    <3>2. CASE Look(e)
      <4>1. request[e].pc = "start" /\ request'[e].pc \in {"looked", "done", "failed"} /\ note' = note
        BY <1>0, <3>2 DEF Look, At
      <4> QED BY <1>0, <4>1 DEF Sound, Placed, Holds, Sees
    <3>3. CASE Create(e)
      <4>1. request[e].pc = "looked" /\ request'[e].pc \in {"mailing", "flushed"} /\ note'[e] = "flushed"
        BY <1>0, <3>3 DEF Create, At, Goes
      <4> QED BY <1>0, <4>1 DEF Sound, Placed, Holds, Sees
    <3>4. CASE Mailed(e)
      <4>1. request[e].pc = "mailing" /\ request'[e].pc = "flushed" /\ note' = note
        BY <1>0, <3>4 DEF Mailed, At, Goes
      <4> QED BY <1>0, <4>1 DEF Sound, Placed, Holds, Sees
    <3>5. CASE RetryIsDue(e)
      BY <1>0, <3>5 DEF RetryIsDue, Sound, Placed, Holds, Sees
    <3> QED BY <3>1, <3>2, <3>3, <3>4, <3>5
  <2> QED BY <2>1, <2>2 DEF Sound
<1>4. CASE mail'[e].status # mail[e].status
  <2>1. Create(e) /\ mail'[e].status \in {"absent", "pending"}
    BY <1>0, <1>4 DEF Look, Create, Mailed, RetryIsDue, Mail
  <2>2. /\ request[e].pc = "looked" /\ request'[e].pc \in {"mailing", "flushed"}
        /\ note'[e] = "flushed"
    BY <1>0, <2>1 DEF Create, At, Goes
  <2>3. note[e] = "none" /\ mail[e].attempts = 0 /\ accepted[e] = 0
    BY <2>2 DEF Sound, Placed
  <2>4. \A t \in Transactions : ~Holds(t, e) BY <2>3 DEF Sound, Placed, Sees
  <2>5. Placed(e)' BY <1>0, <2>2, <2>4 DEF Placed, Holds
  <2>6. Answered(e)' BY <1>0, <2>1 DEF Sound, Answered
  <2>7. Charged(e)' BY <1>0, <1>1, <1>2, <2>3 DEF Sound, Charged
  <2>8. Holders(e) = {} BY <2>4 DEF Holders
  <2>9. 0 + Cardinality(Holders(e)) <= max_attempts + overlaps[e] BY <2>3 DEF Sound, Counted
  <2>10. 0 + 1 <= max_attempts + overlaps[e] BY <1>2
  <2>11. mail'[e].attempts = 0 /\ overlaps' = overlaps /\ Holders(e)' = Holders(e)
    BY <1>0, <1>1, <2>3
  <2>12. Counted(e)' BY <2>8, <2>9, <2>10, <2>11 DEF Counted
  <2> QED BY <2>5, <2>6, <2>7, <2>12 DEF Sound
<1> QED BY <1>3, <1>4

LEMMA TakeSound ==
    ASSUME MailTypeOK, NEW e \in Requests, Sound(e), NEW t \in Transactions, Take(t)
    PROVE Sound(e)'
<1> USE MailBoundsAssumption
<1>0. /\ UNCHANGED <<request, note, mail, accepted, lost>>
      /\ session \in [Transactions -> Session]
      /\ \A u \in Transactions \ {t} : session'[u] = session[u]
      /\ ~Holds(t, e)
  BY DEF Take, Idle, MailTypeOK
<1>1. /\ accepted[e] \in Nat /\ overlaps[e] \in Nat /\ lost[e] \in Nat /\ mail[e].attempts \in Nat
      /\ Cardinality(Holders(e)) \in Nat /\ Cardinality(Unanswered(e)) \in Nat
      /\ IsFiniteSet(Holders(e)) /\ IsFiniteSet(Unanswered(e))
  BY FiniteHolders DEF MailTypeOK, Mail
<1>2. Answered(e)'
  <2>1. session'[t].hold[e] # "id" BY <1>0 DEF Take
  <2> QED BY <1>0, <2>1 DEF Sound, Answered
<1>3. CASE e \in Pending(t)
  <2>1. session'[t].hold[e] = "held" /\ session'[t].seen[e] = mail[e].attempts
    BY <1>0, <1>3 DEF Take
  <2>2. Placed(e)' BY <1>0, <1>3 DEF Sound, Placed, Holds, Sees, Pending
  <2>3. t \notin Holders(e) /\ Holders(e)' = Holders(e) \cup {t}
    BY <1>0, <2>1 DEF Holders, Holds
  <2>4. t \notin Unanswered(e) /\ Unanswered(e)' = Unanswered(e) \cup {t}
    BY <1>0, <2>1 DEF Unanswered, Holders, Holds
  <2>5. /\ Cardinality(Holders(e)') = Cardinality(Holders(e)) + 1
        /\ Cardinality(Unanswered(e)') = Cardinality(Unanswered(e)) + 1
    BY <1>1, <2>3, <2>4, Joined
  <2>6. mail[e].status = "pending" BY <1>3 DEF Pending
  <2>7. CASE Holders(e) = {}
    <3>1. \A u \in Transactions \ {t} : ~Holds(u, e) BY <2>7 DEF Holders
    <3>2. overlaps'[e] = overlaps[e] BY <1>0, <3>1 DEF Take, MailTypeOK
    <3>3. Cardinality(Holders(e)) = 0 /\ Cardinality(Unanswered(e)) = 0
      BY <2>7, FS_EmptySet DEF Unanswered
    <3>4. Charged(e)' BY <1>0, <1>1, <2>3, <2>5, <2>6, <2>7, <3>2, <3>3 DEF Sound, Charged
    <3>5. /\ mail'[e].attempts + Cardinality(Holders(e)') <= max_attempts + overlaps'[e]
          /\ Holders(e)' # {}
      BY <1>0, <1>1, <2>3, <2>5, <2>6, <2>7, <3>2, <3>3 DEF Sound, Counted
    <3>6. mail[e].attempts + 1 < max_attempts =>
            mail[e].attempts + Cardinality(Holders(e)') + 1 <= max_attempts + overlaps'[e]
      BY <1>1, <2>5, <3>2, <3>3
    <3>7. \A u \in Holders(e)' : u = t BY <2>3, <2>7
    <3>8. Counted(e)' BY <1>0, <1>1, <2>1, <3>5, <3>6, <3>7 DEF Counted
    <3> QED BY <1>2, <2>2, <3>4, <3>8 DEF Sound
  <2>8. CASE Holders(e) # {}
    <3>1. PICK v \in Holders(e) : TRUE BY <2>8
    <3>2. v \in Transactions \ {t} /\ Holds(v, e) BY <2>3, <3>1 DEF Holders
    <3>3. overlaps'[e] = overlaps[e] + 1 BY <1>0, <1>3, <3>2 DEF Take, MailTypeOK
    <3>4. Charged(e)' BY <1>0, <1>1, <2>3, <2>5, <3>3 DEF Sound, Charged
    <3>5. /\ mail'[e].attempts + Cardinality(Holders(e)') <= max_attempts + overlaps'[e]
          /\ Holders(e)' # {}
      BY <1>0, <1>1, <2>3, <2>5, <3>3 DEF Sound, Counted
    <3>6. /\ session[v].seen[e] \in Nat
          /\ session[v].seen[e] <= mail[e].attempts
          /\ session[v].seen[e] + 1 < max_attempts =>
               mail[e].attempts + Cardinality(Holders(e)) + 1 <= max_attempts + overlaps[e]
      BY <1>0, <3>1, <3>2 DEF Sound, Counted, Session
    <3>7. mail[e].attempts + 1 < max_attempts =>
            mail[e].attempts + Cardinality(Holders(e)') + 1 <= max_attempts + overlaps'[e]
      BY <1>1, <2>5, <3>3, <3>6
    <3>8. \A u \in Holders(e) :
            /\ session'[u] = session[u]
            /\ session[u].seen[e] <= mail[e].attempts
            /\ session[u].seen[e] + 1 < max_attempts =>
                 mail[e].attempts + Cardinality(Holders(e)') + 1 <= max_attempts + overlaps'[e]
      <4> SUFFICES ASSUME NEW u \in Holders(e)
                   PROVE /\ session'[u] = session[u]
                         /\ session[u].seen[e] <= mail[e].attempts
                         /\ session[u].seen[e] + 1 < max_attempts =>
                              mail[e].attempts + Cardinality(Holders(e)') + 1 <= max_attempts + overlaps'[e]
        OBVIOUS
      <4>1. session'[u] = session[u] BY <1>0, <2>3 DEF Holders
      <4>2. /\ session[u].seen[e] <= mail[e].attempts
            /\ session[u].seen[e] + 1 < max_attempts =>
                 mail[e].attempts + Cardinality(Holders(e)) + 1 <= max_attempts + overlaps[e]
        BY DEF Sound, Counted
      <4> QED BY <1>1, <2>5, <3>3, <4>1, <4>2
    <3>9. \A u \in Holders(e)' :
            /\ session'[u].seen[e] <= mail[e].attempts
            /\ session'[u].seen[e] + 1 < max_attempts =>
                 mail[e].attempts + Cardinality(Holders(e)') + 1 <= max_attempts + overlaps'[e]
      <4>1. ASSUME NEW u \in Holders(e)', u = t
            PROVE /\ session'[u].seen[e] <= mail[e].attempts
                  /\ session'[u].seen[e] + 1 < max_attempts =>
                       mail[e].attempts + Cardinality(Holders(e)') + 1 <= max_attempts + overlaps'[e]
        <5>1. session'[u].seen[e] = mail[e].attempts BY <2>1, <4>1
        <5> QED BY <1>1, <3>7, <5>1
      <4>2. ASSUME NEW u \in Holders(e)', u # t
            PROVE /\ session'[u].seen[e] <= mail[e].attempts
                  /\ session'[u].seen[e] + 1 < max_attempts =>
                       mail[e].attempts + Cardinality(Holders(e)') + 1 <= max_attempts + overlaps'[e]
        <5>1. u \in Holders(e) BY <2>3, <4>2
        <5> QED BY <3>8, <5>1
      <4> QED BY <4>1, <4>2
    <3>10. Counted(e)' BY <1>0, <3>5, <3>9 DEF Counted
    <3> QED BY <1>2, <2>2, <3>4, <3>10 DEF Sound
  <2> QED BY <2>7, <2>8
<1>4. CASE e \notin Pending(t)
  <2>1. session'[t].hold[e] = "unread" BY <1>0, <1>4 DEF Take
  <2>2. Holders(e)' = Holders(e) /\ Unanswered(e)' = Unanswered(e)
    BY <1>0, <2>1, SameHolders DEF Holds
  <2>3. overlaps'[e] = overlaps[e] BY <1>4 DEF Take, MailTypeOK
  <2>4. Placed(e)' BY <1>0, <2>1 DEF Sound, Placed, Holds, Sees
  <2>5. \A u \in Holders(e) : session'[u] = session[u] BY <1>0 DEF Holders
  <2>6. Charged(e)' /\ Counted(e)' BY <1>0, <2>2, <2>3, <2>5 DEF Sound, Charged, Counted
  <2> QED BY <1>2, <2>4, <2>6 DEF Sound
<1> QED BY <1>3, <1>4

LEMMA SendSound ==
    ASSUME MailTypeOK, NEW e \in Requests, Sound(e), NEW t \in Transactions, Send(t)
    PROVE Sound(e)'
<1>0. /\ UNCHANGED <<request, note, mail, overlaps>>
      /\ session \in [Transactions -> Session] /\ session[t] \in Session
      /\ accepted \in [Requests -> Nat] /\ lost \in [Requests -> Nat]
  BY DEF Send, MailTypeOK
<1>1. /\ accepted[e] \in Nat /\ overlaps[e] \in Nat /\ lost[e] \in Nat
      /\ Cardinality(Unanswered(e)) \in Nat /\ IsFiniteSet(Unanswered(e))
  BY FiniteHolders DEF MailTypeOK
<1>2. PICK f \in Unsent(t), outcome \in Outcome :
        /\ session' = [session EXCEPT ![t].hold[f] = outcome, ![t].sending = TRUE]
        /\ accepted' = [accepted EXCEPT ![f] = IF outcome \in {"id", "lost"} THEN @ + 1 ELSE @]
        /\ lost' = [lost EXCEPT ![f] = IF outcome = "lost" THEN @ + 1 ELSE @]
  BY DEF Send
<1>3. f \in Requests /\ session[t].hold[f] = "held" BY DEF Unsent
<1>4. /\ \A u \in Transactions \ {t} : session'[u] = session[u]
      /\ session'[t].seen = session[t].seen
      /\ session'[t].hold[f] = outcome
      /\ e # f => session'[t].hold[e] = session[t].hold[e]
  BY <1>0, <1>2, <1>3 DEF Session
<1>5. Holders(e)' = Holders(e) BY <1>3, <1>4 DEF Holders, Holds, Outcome
<1>6. \A u \in Transactions : session'[u].seen = session[u].seen BY <1>4
<1>7. Counted(e)'
  <2>1. \A u \in Holders(e) : session'[u].seen = session[u].seen BY <1>6 DEF Holders
  <2> QED BY <1>0, <1>5, <2>1 DEF Sound, Counted
<1>8. Placed(e)'
  <2>1. \A u \in Transactions : Holds(u, e)' <=> Holds(u, e) BY <1>5 DEF Holders
  <2>2. request[e].pc \in {"start", "looked"} => accepted'[e] = accepted[e]
    <3>1. CASE e = f
      <4>1. Sees(t, e) BY <1>3, <3>1 DEF Sound, Placed, Holds
      <4> QED BY <4>1 DEF Sound, Placed, Sees
    <3>2. CASE e # f BY <1>0, <1>2, <3>2
    <3> QED BY <3>1, <3>2
  <2> QED BY <1>0, <2>1, <2>2 DEF Sound, Placed, Sees
<1>9. CASE e # f
  <2>1. accepted'[e] = accepted[e] /\ lost'[e] = lost[e] BY <1>0, <1>2, <1>9
  <2>2. Unanswered(e)' = Unanswered(e) BY <1>4, <1>9, SameHolders
  <2>3. Answered(e)' BY <1>0, <1>4, <1>9, <2>1 DEF Sound, Answered
  <2>4. Charged(e)' BY <1>0, <1>5, <2>1, <2>2 DEF Sound, Charged
  <2> QED BY <1>7, <1>8, <2>3, <2>4 DEF Sound
<1>10. CASE e = f
  <2>0. /\ outcome \in {"id", "lost"} => accepted'[e] = accepted[e] + 1
        /\ outcome \notin {"id", "lost"} => accepted'[e] = accepted[e]
        /\ outcome = "lost" => lost'[e] = lost[e] + 1
        /\ outcome # "lost" => lost'[e] = lost[e]
    BY <1>0, <1>2, <1>10
  <2>1. accepted'[e] >= accepted[e] BY <1>1, <2>0
  <2>2. Answered(e)' BY <1>0, <1>1, <1>4, <1>10, <2>0, <2>1 DEF Sound, Answered
  <2>3. t \in Unanswered(e) BY <1>3, <1>10 DEF Unanswered, Holders, Holds
  <2>4. Holders(e)' # {} BY <1>5, <2>3 DEF Unanswered
  <2>5. CASE outcome = "id"
    <3>1. Unanswered(e)' = Unanswered(e) \ {t}
      BY <1>4, <1>5, <1>10, <2>5 DEF Unanswered, Holders
    <3>2. Cardinality(Unanswered(e)') = Cardinality(Unanswered(e)) - 1
      BY <1>1, <2>3, <3>1, Left
    <3>3. accepted'[e] = accepted[e] + 1 /\ lost'[e] = lost[e] BY <2>0, <2>5
    <3>4. Charged(e)' BY <1>0, <1>1, <2>4, <3>2, <3>3 DEF Sound, Charged
    <3> QED BY <1>7, <1>8, <2>2, <3>4 DEF Sound
  <2>6. CASE outcome # "id"
    <3>1. Unanswered(e)' = Unanswered(e)
      BY <1>3, <1>4, <1>5, <1>10, <2>6 DEF Unanswered, Holders
    <3>2. accepted'[e] + lost[e] <= accepted[e] + lost'[e] BY <1>1, <2>0, <2>6
    <3>3. accepted'[e] \in Nat /\ lost'[e] \in Nat BY <1>1, <2>0
    <3>4. Charged(e)' BY <1>0, <1>1, <2>4, <3>1, <3>2, <3>3 DEF Sound, Charged
    <3> QED BY <1>7, <1>8, <2>2, <3>4 DEF Sound
  <2> QED BY <2>5, <2>6
<1> QED BY <1>9, <1>10

LEMMA MarkSound ==
    ASSUME MailTypeOK, NEW e \in Requests, Sound(e), NEW t \in Transactions, Mark(t)
    PROVE Sound(e)'
<1>1. /\ UNCHANGED <<request, note, mail, accepted, overlaps, lost>>
      /\ \A u \in Transactions : /\ session'[u].hold = session[u].hold
                                 /\ session'[u].seen = session[u].seen
  BY DEF Mark, MailTypeOK, Session
<1>2. Holders(e)' = Holders(e) /\ Unanswered(e)' = Unanswered(e) BY <1>1, SameHolders
<1>3. \A u \in Holders(e) : session'[u].seen = session[u].seen BY <1>1 DEF Holders
<1>4. Placed(e)' BY <1>1 DEF Sound, Placed, Holds, Sees
<1>5. Answered(e)' BY <1>1 DEF Sound, Answered
<1>6. Charged(e)' /\ Counted(e)' BY <1>1, <1>2, <1>3 DEF Sound, Charged, Counted
<1> QED BY <1>4, <1>5, <1>6 DEF Sound

\* A session that ends holds nothing.
LEMMA Leaves ==
    ASSUME MailTypeOK, NEW e \in Requests, NEW t \in Transactions,
           session' = [session EXCEPT ![t] = NoSession]
    PROVE /\ Holders(e)' = Holders(e) \ {t}
          /\ Unanswered(e)' = Unanswered(e) \ {t}
          /\ \A u \in Transactions \ {t} : session'[u] = session[u]
          /\ session'[t].hold[e] = "unread"
<1>1. /\ \A u \in Transactions \ {t} : session'[u] = session[u]
      /\ session'[t].hold[e] = "unread"
  BY DEF MailTypeOK, NoSession
<1> QED BY <1>1 DEF Holders, Unanswered, Holds

\* What a session that held the row leaves.
LEMMA LeftByHolder ==
    ASSUME NEW e \in Requests, NEW t \in Holders(e),
           Holders(e)' = Holders(e) \ {t}, Unanswered(e)' = Unanswered(e) \ {t}
    PROVE /\ Cardinality(Holders(e)') = Cardinality(Holders(e)) - 1
          /\ Cardinality(Holders(e)') \in Nat
          /\ Cardinality(Unanswered(e)') \in Nat
          /\ session[t].hold[e] = "id" => Cardinality(Unanswered(e)') = Cardinality(Unanswered(e))
          /\ session[t].hold[e] # "id" => Cardinality(Unanswered(e)') = Cardinality(Unanswered(e)) - 1
<1>0. IsFiniteSet(Holders(e)) /\ IsFiniteSet(Unanswered(e)) BY FiniteHolders
<1>1. Cardinality(Holders(e)') = Cardinality(Holders(e)) - 1 BY <1>0, Left
<1>2. IsFiniteSet(Holders(e)') /\ IsFiniteSet(Unanswered(e)') BY <1>0, FS_RemoveElement
<1>3. Cardinality(Holders(e)') \in Nat /\ Cardinality(Unanswered(e)') \in Nat
  BY <1>2, FS_CardinalityType
<1>4. CASE session[t].hold[e] = "id"
  <2>1. Unanswered(e)' = Unanswered(e) BY <1>4 DEF Unanswered
  <2> QED BY <1>1, <1>3, <1>4, <2>1
<1>5. CASE session[t].hold[e] # "id"
  <2>1. t \in Unanswered(e) BY <1>5 DEF Unanswered
  <2>2. Cardinality(Unanswered(e)') = Cardinality(Unanswered(e)) - 1 BY <1>0, <2>1, Left
  <2> QED BY <1>1, <1>3, <1>5, <2>2
<1> QED BY <1>4, <1>5

LEMMA CommitSound ==
    ASSUME MailTypeOK, NEW e \in Requests, Sound(e), NEW t \in Transactions,
           session' = [session EXCEPT ![t] = NoSession],
           mail' = Written(t), UNCHANGED <<accepted, overlaps, lost>>,
           \/ UNCHANGED <<request, note>>
           \/ /\ request[t].pc = "flushed" /\ t \in Requests
              /\ request' = [request EXCEPT ![t].pc = "done"]
              /\ note' = [note EXCEPT ![t] = "committed"]
    PROVE Sound(e)'
<1> USE MailBoundsAssumption
<1>0. /\ Holders(e)' = Holders(e) \ {t} /\ Unanswered(e)' = Unanswered(e) \ {t}
      /\ \A u \in Transactions \ {t} : session'[u] = session[u]
      /\ session'[t].hold[e] = "unread"
  BY Leaves
<1>1. /\ accepted[e] \in Nat /\ overlaps[e] \in Nat /\ lost[e] \in Nat /\ mail[e].attempts \in Nat
      /\ session[t].seen[e] \in Nat
      /\ Cardinality(Holders(e)) \in Nat /\ Cardinality(Unanswered(e)) \in Nat
  BY FiniteHolders DEF MailTypeOK, Mail, Session
<1>2. \A u \in Holders(e)' : u \in Holders(e) /\ session'[u] = session[u]
  BY <1>0 DEF Holders
<1>3. Placed(e)'
  <2>1. \A u \in Transactions : Holds(u, e)' => Holds(u, e) BY <1>0 DEF Holds
  <2>2. request[e].pc \in {"start", "looked"} => mail'[e] = mail[e]
    <3>1. request[e].pc \in {"start", "looked"} => ~Holds(t, e) BY DEF Sound, Placed, Sees
    <3> QED BY <3>1 DEF Written
  <2>3. CASE UNCHANGED <<request, note>> BY <2>1, <2>2, <2>3 DEF Sound, Placed, Sees
  <2>4. CASE /\ request[t].pc = "flushed" /\ t \in Requests
             /\ request' = [request EXCEPT ![t].pc = "done"]
             /\ note' = [note EXCEPT ![t] = "committed"]
    <3>1. CASE e = t
      <4>1. request'[e].pc = "done" /\ note'[e] = "committed" BY <2>4, <3>1 DEF MailTypeOK
      <4> QED BY <4>1 DEF Placed, Sees
    <3>2. CASE e # t
      <4>1. request'[e] = request[e] /\ note'[e] = note[e] BY <2>4, <3>2 DEF MailTypeOK
      <4> QED BY <2>1, <2>2, <4>1 DEF Sound, Placed, Sees
    <3> QED BY <3>1, <3>2
  <2> QED BY <2>3, <2>4
<1>4. CASE ~Holds(t, e)
  <2>1. mail'[e] = mail[e] BY <1>4 DEF Written
  <2>2. Holders(e)' = Holders(e) /\ Unanswered(e)' = Unanswered(e)
    BY <1>0, <1>4 DEF Holders, Unanswered
  <2>3. Answered(e)' BY <1>0, <2>1 DEF Sound, Answered
  <2>4. Charged(e)' BY <2>1, <2>2 DEF Sound, Charged
  <2>5. Counted(e)' BY <1>2, <2>1, <2>2 DEF Sound, Counted
  <2> QED BY <1>3, <2>3, <2>4, <2>5 DEF Sound
<1>5. CASE Holds(t, e)
  <2>0. t \in Holders(e) BY <1>5 DEF Holders
  <2>1. /\ mail'[e].attempts = mail[e].attempts + 1
        /\ mail'[e].status = "sent" => session[t].hold[e] = "id"
        /\ mail'[e].status = "pending" =>
             session[t].hold[e] # "id" /\ session[t].seen[e] + 1 < max_attempts
    BY <1>5, NewMailFacts DEF Written
  <2>2. /\ Cardinality(Holders(e)') = Cardinality(Holders(e)) - 1
        /\ Cardinality(Holders(e)') \in Nat /\ Cardinality(Unanswered(e)') \in Nat
        /\ session[t].hold[e] = "id" => Cardinality(Unanswered(e)') = Cardinality(Unanswered(e))
        /\ session[t].hold[e] # "id" => Cardinality(Unanswered(e)') = Cardinality(Unanswered(e)) - 1
    BY <1>0, <2>0, LeftByHolder
  <2>3. Answered(e)' BY <1>0, <2>1 DEF Sound, Answered
  <2>4. Charged(e)'
    <3>1. accepted[e] + Cardinality(Unanswered(e)') <= 1 + overlaps[e] + lost[e]
      BY <1>1, <2>2 DEF Sound, Charged
    <3>2. mail'[e].status = "pending" => accepted[e] <= overlaps[e] + lost[e]
      BY <1>1, <2>1, <2>2 DEF Sound, Charged
    <3> QED BY <3>1, <3>2 DEF Charged
  <2>5. Counted(e)'
    <3>1. mail'[e].attempts + Cardinality(Holders(e)') <= max_attempts + overlaps[e]
      BY <1>1, <2>1, <2>2 DEF Sound, Counted
    <3>2. session[t].seen[e] + 1 < max_attempts =>
            mail[e].attempts + Cardinality(Holders(e)) + 1 <= max_attempts + overlaps[e]
      BY <2>0 DEF Sound, Counted
    <3>3. mail'[e].status = "pending" => mail'[e].attempts + 1 <= max_attempts + overlaps[e]
      BY <1>1, <2>1, <2>2, <3>2
    <3>4. ASSUME NEW u \in Holders(e)'
          PROVE /\ session'[u].seen[e] <= mail'[e].attempts
                /\ session'[u].seen[e] + 1 < max_attempts =>
                     mail'[e].attempts + Cardinality(Holders(e)') + 1 <= max_attempts + overlaps[e]
      <4>1. /\ u \in Holders(e) /\ u \in Transactions /\ session'[u] = session[u]
            /\ session[u].seen[e] \in Nat
        BY <1>2 DEF Holders, MailTypeOK, Session
      <4>2. /\ session[u].seen[e] <= mail[e].attempts
            /\ session[u].seen[e] + 1 < max_attempts =>
                 mail[e].attempts + Cardinality(Holders(e)) + 1 <= max_attempts + overlaps[e]
        BY <4>1 DEF Sound, Counted
      <4> QED BY <1>1, <2>1, <2>2, <4>1, <4>2
    <3> QED BY <3>1, <3>3, <3>4 DEF Counted
  <2> QED BY <1>3, <2>3, <2>4, <2>5 DEF Sound
<1> QED BY <1>4, <1>5

LEMMA AbortSound ==
    ASSUME MailTypeOK, NEW e \in Requests, Sound(e), NEW t \in Transactions, Abort(t)
    PROVE Sound(e)'
<1> USE MailBoundsAssumption
<1>0. /\ Holders(e)' = Holders(e) \ {t} /\ Unanswered(e)' = Unanswered(e) \ {t}
      /\ \A u \in Transactions \ {t} : session'[u] = session[u]
      /\ session'[t].hold[e] = "unread"
  BY Leaves DEF Abort
<1>1. /\ accepted[e] \in Nat /\ overlaps[e] \in Nat /\ lost[e] \in Nat /\ mail[e].attempts \in Nat
      /\ Cardinality(Holders(e)) \in Nat /\ Cardinality(Unanswered(e)) \in Nat
  BY FiniteHolders DEF MailTypeOK, Mail
<1>2. /\ UNCHANGED <<accepted, overlaps>>
      /\ session[t].hold[e] = "id" => lost'[e] = lost[e] + 1
      /\ session[t].hold[e] # "id" => lost'[e] = lost[e]
      /\ lost'[e] \in Nat
  <2>1. lost'[e] = IF session[t].hold[e] = "id" THEN lost[e] + 1 ELSE lost[e] BY DEF Abort
  <2> QED BY <1>1, <2>1 DEF Abort
<1>3. \A u \in Holders(e)' : u \in Holders(e) /\ session'[u] = session[u]
  BY <1>0 DEF Holders
<1>4. /\ mail'[e].attempts = mail[e].attempts
      /\ mail'[e].status # "absent" => mail'[e].status = mail[e].status
  BY DEF Abort, MailTypeOK, Mail
<1>5. Placed(e)'
  <2>1. \A u \in Transactions : Holds(u, e)' => Holds(u, e) /\ u # t BY <1>0 DEF Holds
  <2>2. CASE UNCHANGED <<request, note, mail>> BY <1>2, <2>1, <2>2 DEF Sound, Placed, Sees
  <2>3. CASE /\ t \in Requests /\ request[t].pc \in {"looked", "mailing", "flushed"}
             /\ Goes(t, "failed")
             /\ note' = [note EXCEPT ![t] = "none"]
    <3>1. CASE e = t
      <4>1. request'[e].pc = "failed" /\ note'[e] = "none"
        BY <2>3, <3>1 DEF Goes, MailTypeOK
      <4>2. note[e] # "committed" BY <2>3, <3>1 DEF Sound, Placed
      <4>3. \A u \in Transactions : ~Holds(u, e)' BY <2>1, <3>1, <4>2 DEF Sound, Placed, Sees
      <4> QED BY <4>1, <4>3 DEF Placed
    <3>2. CASE e # t
      <4>1. request'[e] = request[e] /\ note'[e] = note[e]
        BY <2>3, <3>2 DEF Goes, MailTypeOK
      <4> QED BY <1>2, <1>4, <2>1, <4>1 DEF Sound, Placed, Sees
    <3> QED BY <3>1, <3>2
  <2> QED BY <2>2, <2>3 DEF Abort
<1>6. Answered(e)' BY <1>0, <1>2, <1>4 DEF Sound, Answered
<1>7. CASE t \notin Holders(e)
  <2>1. Holders(e)' = Holders(e) /\ Unanswered(e)' = Unanswered(e)
    BY <1>0, <1>7 DEF Unanswered
  <2>2. session[t].hold[e] # "id" BY <1>7 DEF Holders, Holds
  <2>3. Charged(e)' BY <1>2, <1>4, <2>1, <2>2 DEF Sound, Charged
  <2>4. Counted(e)' BY <1>2, <1>3, <1>4, <2>1 DEF Sound, Counted
  <2> QED BY <1>5, <1>6, <2>3, <2>4 DEF Sound
<1>8. CASE t \in Holders(e)
  <2>1. /\ Cardinality(Holders(e)') = Cardinality(Holders(e)) - 1
        /\ Cardinality(Holders(e)') \in Nat /\ Cardinality(Unanswered(e)') \in Nat
        /\ session[t].hold[e] = "id" => Cardinality(Unanswered(e)') = Cardinality(Unanswered(e))
        /\ session[t].hold[e] # "id" => Cardinality(Unanswered(e)') = Cardinality(Unanswered(e)) - 1
    BY <1>0, <1>8, LeftByHolder
  <2>2. Charged(e)'
    <3>1. /\ accepted[e] + Cardinality(Unanswered(e)') <= 1 + overlaps[e] + lost'[e]
          /\ accepted[e] <= overlaps[e] + lost'[e]
      BY <1>1, <1>2, <2>1 DEF Sound, Charged
    <3> QED BY <1>2, <3>1 DEF Charged
  <2>3. Counted(e)'
    <3>1. /\ mail[e].attempts + Cardinality(Holders(e)') <= max_attempts + overlaps[e]
          /\ mail[e].attempts + 1 <= max_attempts + overlaps[e]
      BY <1>1, <2>1 DEF Sound, Counted
    <3>2. ASSUME NEW u \in Holders(e)'
          PROVE /\ session'[u].seen[e] <= mail[e].attempts
                /\ session'[u].seen[e] + 1 < max_attempts =>
                     mail[e].attempts + Cardinality(Holders(e)') + 1 <= max_attempts + overlaps[e]
      <4>1. u \in Holders(e) /\ session'[u] = session[u] BY <1>3
      <4>2. /\ session[u].seen[e] <= mail[e].attempts
            /\ session[u].seen[e] + 1 < max_attempts =>
                 mail[e].attempts + Cardinality(Holders(e)) + 1 <= max_attempts + overlaps[e]
        BY <4>1 DEF Sound, Counted
      <4> QED BY <1>1, <2>1, <4>1, <4>2
    <3> QED BY <1>2, <1>4, <3>1, <3>2 DEF Counted
  <2> QED BY <1>5, <1>6, <2>2, <2>3 DEF Sound
<1> QED BY <1>7, <1>8

LEMMA SoundStep ==
    ASSUME MailTypeOK, AllSound, [Next]_vars
    PROVE AllSound'
<1> SUFFICES ASSUME NEW e \in Requests PROVE Sound(e)'
  BY DEF AllSound
<1>0. Sound(e) BY DEF AllSound
<1>1. ASSUME NEW r \in Requests,
             Look(r) \/ Create(r) \/ Mailed(r) \/ RequestCommits(r) \/ RetryIsDue(r)
      PROVE Sound(e)'
  <2>1. r \in Transactions BY DEF Transactions
  <2>2. CASE RequestCommits(r)
    BY <1>0, <2>1, <2>2, CommitSound DEF RequestCommits, At, Goes
  <2> QED BY <1>0, <1>1, <2>2, RequestSound
<1>2. ASSUME NEW t \in Transactions, Processing(t) PROVE Sound(e)'
  BY <1>0, <1>2, TakeSound, SendSound, MarkSound, AbortSound DEF Processing
<1>3. ASSUME NEW p \in Processors, ProcessorCommits(p) PROVE Sound(e)'
  <2>1. p \in Transactions BY DEF Transactions
  <2> QED BY <1>0, <1>3, <2>1, CommitSound DEF ProcessorCommits
<1>4. CASE UNCHANGED vars
  <2>1. UNCHANGED <<request, note, mail, session, accepted, overlaps, lost>> BY <1>4 DEF vars
  <2>2. Holders(e)' = Holders(e) /\ Unanswered(e)' = Unanswered(e) BY <2>1, SameHolders
  <2>3. Placed(e)' BY <1>0, <2>1 DEF Sound, Placed, Holds, Sees
  <2>4. Answered(e)' BY <1>0, <2>1 DEF Sound, Answered
  <2>5. Charged(e)' /\ Counted(e)' BY <1>0, <2>1, <2>2 DEF Sound, Charged, Counted
  <2> QED BY <2>3, <2>4, <2>5 DEF Sound
<1> QED BY <1>1, <1>2, <1>3, <1>4 DEF Next

LEMMA AlwaysSound == Spec => [](MailTypeOK /\ AllSound)
<1>1. MailTypeOK /\ AllSound /\ [Next]_vars => AllSound' BY SoundStep
<1> QED BY <1>1, InitSound, MailTypeCorrect, PTL DEF Spec

-----------------------------------------------------------------------------
(* The theorems. *)

\* A status "sent" tells the truth, for every number of sessions that write it.
THEOREM SentIsAccepted == Spec => []SentWasAccepted
<1>1. AllSound => SentWasAccepted BY DEF AllSound, Sound, Answered, SentWasAccepted
<1> QED BY <1>1, AlwaysSound, PTL

\* One e-mail, and one more for each overlap and each acceptance that was lost,
\* for every number of sessions and of faults.
THEOREM DuplicatesHaveCauses == Spec => []DuplicateHasCause
<1>1. MailTypeOK /\ AllSound => DuplicateHasCause
  <2> SUFFICES ASSUME MailTypeOK, AllSound, NEW e \in Requests
               PROVE accepted[e] <= 1 + overlaps[e] + lost[e]
    BY DEF DuplicateHasCause
  <2>1. accepted[e] + Cardinality(Unanswered(e)) <= 1 + overlaps[e] + lost[e]
    BY DEF AllSound, Sound, Charged
  <2>2. accepted[e] \in Nat /\ overlaps[e] \in Nat /\ lost[e] \in Nat /\ Cardinality(Unanswered(e)) \in Nat
    BY FiniteHolders DEF MailTypeOK
  <2> QED BY <2>1, <2>2
<1> QED BY <1>1, AlwaysSound, PTL

\* max_attempts, and one more for each overlap, for every max_attempts.
THEOREM AttemptsAreBounded == Spec => []AttemptsBounded
<1>1. MailTypeOK /\ AllSound => AttemptsBounded
  <2> SUFFICES ASSUME MailTypeOK, AllSound, NEW e \in Requests
               PROVE mail[e].attempts <= max_attempts + overlaps[e]
    BY DEF AttemptsBounded
  <2>1. mail[e].attempts + Cardinality(Holders(e)) <= max_attempts + overlaps[e]
    BY DEF AllSound, Sound, Counted
  <2>2. mail[e].attempts \in Nat /\ overlaps[e] \in Nat /\ Cardinality(Holders(e)) \in Nat
    BY FiniteHolders DEF MailTypeOK, Mail
  <2> QED BY <2>1, <2>2, MailBoundsAssumption
<1> QED BY <1>1, AlwaysSound, PTL
=============================================================================
