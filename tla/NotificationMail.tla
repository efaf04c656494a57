-------------------------- MODULE NotificationMail --------------------------
(***************************************************************************)
(* Notifications and the e-mail queue (app/domains/notify/service.py and   *)
(* repository.py, app/workers/email_worker.py): requests that notify one   *)
(* user, each adding an e-mail to the queue, and the transactions that     *)
(* send what is queued.                                                    *)
(*                                                                         *)
(* process_email_queue reads the pending rows without locking them, sends  *)
(* each one and overwrites its status, and commits once at the end.  It    *)
(* runs in a session of its own when an administrator asks for it, and,    *)
(* where the environment is "development", inside the session of the       *)
(* request that has just added an e-mail.                                  *)
(*                                                                         *)
(* overlaps and lost count what may make an e-mail go out twice; nothing   *)
(* reads them but the properties.                                          *)
(***************************************************************************)
EXTENDS Integers, FiniteSets

CONSTANTS Requests,     \* the requests, numbered by the time they began (created_at)
          Processors,   \* sessions of the administrator's endpoint
          Keys,         \* values of dedup_key
          NoKey,        \* dedup_key = None
          max_attempts, \* EmailQueue.max_attempts, 3 in the code
          MaxFaults     \* bound: sessions that are rolled back, and answers that are lost

ASSUME RequestsAssumption == Requests \in SUBSET Nat /\ IsFiniteSet(Requests)
ASSUME ProcessorsAssumption == IsFiniteSet(Processors) /\ Processors \cap Requests = {}
ASSUME KeysAssumption == NoKey \notin Keys
ASSUME MailBoundsAssumption == max_attempts \in Nat \ {0} /\ MaxFaults \in Nat

VARIABLES inline,    \* settings.environment = "development"
          request,   \* [pc, key] of each request
          note,      \* its notification: "none", "flushed" in its session, "committed"
          mail,      \* the email_queue row of that notification
          session,   \* the processing each transaction is in the middle of
          accepted,  \* how often the provider took the e-mail
          overlaps,  \* reads of the row while another session was about to send it
          lost,      \* acceptances nobody recorded
          faults

vars == <<inline, request, note, mail, session, accepted, overlaps, lost, faults>>

Transactions == Requests \cup Processors

RequestPC == {"start", "looked", "mailing", "flushed", "done", "failed"}
Note == {"none", "flushed", "committed"}

\* "absent": the user has no address, or nothing was inserted
MailStatus == {"absent", "pending", "sent", "failed"}
Mail == [status : MailStatus, attempts : Nat, due : BOOLEAN]

\* What the provider did: took it and said so, took it and the answer was lost,
\* gave no id, or raised.  "unread" is a row a session does not hold, "held" one
\* it has read and not sent.
Outcome == {"id", "lost", "noid", "raise"}
Hold == Outcome \cup {"unread", "held"}

\* sending: the row whose answer is there and whose UPDATE is not
Session == [hold : [Requests -> Hold], seen : [Requests -> Nat], sending : BOOLEAN]
NoSession == [hold |-> [e \in Requests |-> "unread"], seen |-> [e \in Requests |-> 0],
              sending |-> FALSE]

Init ==
    /\ inline \in BOOLEAN
    /\ request = [r \in Requests |-> [pc |-> "start", key |-> NoKey]]
    /\ note = [r \in Requests |-> "none"]
    /\ mail = [r \in Requests |-> [status |-> "absent", attempts |-> 0, due |-> TRUE]]
    /\ session = [t \in Transactions |-> NoSession]
    /\ accepted = [r \in Requests |-> 0]
    /\ overlaps = [r \in Requests |-> 0]
    /\ lost = [r \in Requests |-> 0]
    /\ faults = 0

Fault == faults < MaxFaults /\ faults' = faults + 1

At(r, pc) == request[r].pc = pc
Goes(r, pc) == request' = [request EXCEPT ![r].pc = pc]

-----------------------------------------------------------------------------
(* send_notification *)

\* committed notifications with the key
Found(k) == {n \in Requests : note[n] = "committed" /\ request[n].key = k /\ k # NoKey}

\* find_by_dedup_key: nothing, the one there is, or MultipleResultsFound
Look(r) ==
    /\ At(r, "start")
    /\ \E k \in Keys \cup {NoKey} :
         request' = [request EXCEPT ![r] =
             [pc |-> IF Found(k) = {} THEN "looked"
                     ELSE IF Cardinality(Found(k)) = 1 THEN "done" ELSE "failed",
              key |-> k]]
    /\ UNCHANGED <<inline, note, mail, session, accepted, overlaps, lost, faults>>

\* create, create_delivery, _enqueue_email, and in development the queue
Create(r) ==
    /\ At(r, "looked")
    /\ note' = [note EXCEPT ![r] = "flushed"]
    /\ \E status \in {"absent", "pending"} :
         /\ mail' = [mail EXCEPT ![r].status = status]
         /\ Goes(r, IF inline /\ status = "pending" THEN "mailing" ELSE "flushed")
    /\ UNCHANGED <<inline, session, accepted, overlaps, lost, faults>>

-----------------------------------------------------------------------------
(* process_email_queue, in transaction t *)

Sees(t, e) == note[e] = "committed" \/ (t = e /\ note[e] = "flushed")

\* mutant: what was sent is not excluded
PendingOrSent(t) == {e \in Requests : Sees(t, e) /\ mail[e].status \in {"pending", "sent"} /\ mail[e].due}

\* get_pending_emails
Pending(t) == {e \in Requests : Sees(t, e) /\ mail[e].status = "pending" /\ mail[e].due}

Holds(t, e) == session[t].hold[e] # "unread"
Unsent(t) == {e \in Requests : session[t].hold[e] = "held"}
Idle(t) == \A e \in Requests : ~Holds(t, e)
Finished(t) == ~Idle(t) /\ Unsent(t) = {} /\ ~session[t].sending

Take(t) ==
    /\ Idle(t)
    /\ t \in Requests => At(t, "mailing")
    /\ Pending(t) # {}
    /\ session' = [session EXCEPT ![t] =
           [hold |-> [e \in Requests |-> IF e \in Pending(t) THEN "held" ELSE "unread"],
            seen |-> [e \in Requests |-> IF e \in Pending(t) THEN mail[e].attempts ELSE 0],
            sending |-> FALSE]]
    /\ overlaps' = [e \in Requests |->
           IF e \in Pending(t) /\ \E u \in Transactions \ {t} : Holds(u, e)
           THEN overlaps[e] + 1 ELSE overlaps[e]]
    /\ UNCHANGED <<inline, request, note, mail, accepted, lost, faults>>

\* the oldest of those read and not sent
Send(t) ==
    /\ ~session[t].sending
    /\ \E e \in Unsent(t), outcome \in Outcome :
         /\ \A f \in Unsent(t) : e <= f
         /\ session' = [session EXCEPT ![t].hold[e] = outcome, ![t].sending = TRUE]
         /\ accepted' = [accepted EXCEPT ![e] = IF outcome \in {"id", "lost"} THEN @ + 1 ELSE @]
         /\ lost' = [lost EXCEPT ![e] = IF outcome = "lost" THEN @ + 1 ELSE @]
         /\ IF outcome = "lost" THEN Fault ELSE UNCHANGED faults
    /\ UNCHANGED <<inline, request, note, mail, overlaps>>

\* rows t has overwritten and not committed
Marked(t) ==
    LET sent == {e \in Requests : session[t].hold[e] \in Outcome}
    IN  IF session[t].sending THEN {e \in sent : \E f \in sent : f > e} ELSE sent

\* mark_email_sent or mark_email_failed, once no other session has the row
Mark(t) ==
    /\ session[t].sending
    /\ \A u \in Transactions \ {t}, e \in Requests :
         session[t].hold[e] \in Outcome => e \notin Marked(u)
    /\ session' = [session EXCEPT ![t].sending = FALSE]
    /\ UNCHANGED <<inline, request, note, mail, accepted, overlaps, lost, faults>>

\* mutants: a state of its own for retries; no id taken for success; one
\* attempt too many
NewMailRetrying(t, e) ==
    [status |-> IF session[t].hold[e] = "id" THEN "sent" ELSE "retrying",
     attempts |-> mail[e].attempts + 1, due |-> TRUE]
NewMailTrusting(t, e) ==
    [status |-> IF session[t].hold[e] \in {"id", "noid"} THEN "sent" ELSE "failed",
     attempts |-> mail[e].attempts + 1, due |-> TRUE]
NewMailOneMore(t, e) ==
    [status |-> IF session[t].hold[e] = "id" THEN "sent"
                ELSE IF session[t].seen[e] >= max_attempts THEN "failed" ELSE "pending",
     attempts |-> mail[e].attempts + 1, due |-> TRUE]

\* the status it writes follows from the attempts it has read, the counter
\* from the row
NewMail(t, e) ==
    LET status == CASE session[t].hold[e] = "id" -> "sent"
                    [] session[t].hold[e] = "noid" -> "failed"
                    [] OTHER -> IF session[t].seen[e] + 1 >= max_attempts
                                THEN "failed" ELSE "pending"
    IN  [status |-> status, attempts |-> mail[e].attempts + 1, due |-> status # "pending"]

Written(t) == [e \in Requests |-> IF Holds(t, e) THEN NewMail(t, e) ELSE mail[e]]

ProcessorCommits(p) ==
    /\ Finished(p)
    /\ mail' = Written(p)
    /\ session' = [session EXCEPT ![p] = NoSession]
    /\ UNCHANGED <<inline, request, note, accepted, overlaps, lost, faults>>

\* the inline processing is over; its UPDATEs are in the request's session
Mailed(r) ==
    /\ At(r, "mailing")
    /\ Finished(r)
    /\ Goes(r, "flushed")
    /\ UNCHANGED <<inline, note, mail, session, accepted, overlaps, lost, faults>>

\* get_db commits when the handler has returned
RequestCommits(r) ==
    /\ At(r, "flushed")
    /\ Goes(r, "done")
    /\ note' = [note EXCEPT ![r] = "committed"]
    /\ mail' = Written(r)
    /\ session' = [session EXCEPT ![r] = NoSession]
    /\ UNCHANGED <<inline, accepted, overlaps, lost, faults>>

\* a crash, an error later in the handler, a statement that fails
Abort(t) ==
    /\ Fault
    /\ \/ t \in Processors /\ ~Idle(t) /\ UNCHANGED <<request, note, mail>>
       \/ /\ t \in Requests /\ request[t].pc \in {"looked", "mailing", "flushed"}
          /\ Goes(t, "failed")
          /\ note' = [note EXCEPT ![t] = "none"]
          /\ mail' = [mail EXCEPT ![t].status = "absent"]
    /\ session' = [session EXCEPT ![t] = NoSession]
    /\ lost' = [e \in Requests |-> IF session[t].hold[e] = "id" THEN lost[e] + 1 ELSE lost[e]]
    /\ UNCHANGED <<inline, accepted, overlaps>>

\* next_retry_at is reached
RetryIsDue(e) ==
    /\ ~mail[e].due
    /\ mail' = [mail EXCEPT ![e].due = TRUE]
    /\ UNCHANGED <<inline, request, note, session, accepted, overlaps, lost, faults>>

Processing(t) == Take(t) \/ Send(t) \/ Mark(t) \/ Abort(t)

Next ==
    \/ \E r \in Requests : Look(r) \/ Create(r) \/ Mailed(r) \/ RequestCommits(r) \/ RetryIsDue(r)
    \/ \E t \in Transactions : Processing(t)
    \/ \E p \in Processors : ProcessorCommits(p)

Spec == Init /\ [][Next]_vars

-----------------------------------------------------------------------------
(* Properties. *)

\* Every field has a value the program can give it.
MailTypeOK ==
    /\ inline \in BOOLEAN
    /\ request \in [Requests -> [pc : RequestPC, key : Keys \cup {NoKey}]]
    /\ note \in [Requests -> Note]
    /\ mail \in [Requests -> Mail]
    /\ session \in [Transactions -> Session]
    /\ accepted \in [Requests -> Nat]
    /\ overlaps \in [Requests -> Nat]
    /\ lost \in [Requests -> Nat]
    /\ faults \in 0..MaxFaults

\* A row that says "sent" was accepted by the provider, whichever of the
\* sessions that had read it wrote last and whatever was rolled back.
SentWasAccepted == \A e \in Requests : mail[e].status = "sent" => accepted[e] > 0

\* An e-mail leaves more than once only for a cause: a session that read the
\* row while another was about to send it, an answer that was lost, or a
\* rollback after an acceptance, one more for each.
DuplicateHasCause == \A e \in Requests : accepted[e] <= 1 + overlaps[e] + lost[e]

\* max_attempts holds but for sessions that overlap: mark_email_failed decides
\* on the count its session has read and increments the row's.
AttemptsBounded == \A e \in Requests : mail[e].attempts <= max_attempts + overlaps[e]
=============================================================================
