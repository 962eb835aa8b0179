------------------------------ MODULE Notifier ------------------------------
(***************************************************************************)
(* The notification service for one recipient: Service.Run and handle        *)
(* (notifier/service.go), deliverWithRetry (delivery.go), the restart loop   *)
(* of cmd/notifier/main.go, and the push token of the recipient, which the   *)
(* main server keeps (internal_handlers.go).                                 *)
(*                                                                         *)
(* A publication is one message.created event; a resent message is published *)
(* again.  Redis pub/sub keeps nothing: what is published while nobody is    *)
(* subscribed is lost.  Each event is handled by a goroutine of its own.     *)
(* Time is abstracted: a backoff ends some time after it began.  Every remote *)
(* call may fail.                                                            *)
(***************************************************************************)
EXTENDS Integers, Sequences, FiniteSets

CONSTANTS
    Pubs,              \* publications of message.created
    Tokens, None,      \* push tokens; None: the recipient registered none
    MaxAttempts,       \* maxAttempts
    MaxChanges         \* bound: changes of the recipient and of the service

ASSUME NotifierAssumption ==
    /\ IsFiniteSet(Pubs) /\ None \notin Tokens /\ None # "sent"
    /\ MaxAttempts \in Nat \ {0} /\ MaxChanges \in Nat

VARIABLES
    up,        \* the service runs
    subscribed,
    received,   \* sub.Channel(): publications received and not yet read
    step,       \* per publication: step of its goroutine
    token,     \* per publication: pushToken, as fetched
    attempt, backoff,   \* per publication: local variables of deliverWithRetry
    pushed,    \* per publication: notifications the backend accepted
    outcome,   \* per publication: how handle returned
    sent, skipped, errors,  \* NotificationsSent, NotificationsSkipped, NotificationErrors
    online,    \* presence:conns:<recipient> is positive
    pushToken, \* users.push_token of the recipient
    changes

handlers == <<step, token, attempt, backoff, pushed, outcome, sent, skipped, errors>>
service  == <<up, subscribed, received>>
user     == <<online, pushToken, changes>>
notifierVars == <<handlers, service, user>>

NotifierInit ==
    /\ up = TRUE /\ subscribed = TRUE /\ received = <<>> /\ step = [p \in Pubs |-> "none"]
    /\ token = [p \in Pubs |-> None] /\ attempt = [p \in Pubs |-> 0]
    /\ backoff = [p \in Pubs |-> 0] /\ pushed = [p \in Pubs |-> 0]
    /\ outcome = [p \in Pubs |-> None] /\ sent = 0 /\ skipped = 0 /\ errors = 0
    /\ online \in BOOLEAN /\ pushToken \in Tokens \cup {None} /\ changes = 0

-----------------------------------------------------------------------------
(* The recipient and the main server *)

Change == changes < MaxChanges /\ changes' = changes + 1

\* The recipient's first connection comes or its last one goes (presence.go).
ToggleOnline ==
    /\ Change
    /\ online' = ~online
    /\ UNCHANGED <<handlers, service, pushToken>>

\* RegisterPushTokenHandler: a token replaces another, none is ever taken back.
RegisterPushToken(t) ==
    /\ Change
    /\ pushToken' = t
    /\ UNCHANGED <<handlers, service, online>>

\* PublishMessageCreated: PUBLISH reaches whoever is subscribed now.
PublishMessageCreated(p) ==
    /\ step[p] = "none"
    /\ step' = [step EXCEPT ![p] = IF subscribed THEN "queued" ELSE "lost"]
    /\ received' = IF subscribed THEN Append(received, p) ELSE received
    /\ UNCHANGED <<token, attempt, backoff, pushed, outcome, sent, skipped, errors,
                   up, subscribed, user>>

-----------------------------------------------------------------------------
(* Run, and the loop around it *)

\* go s.handle(ev)
Receive ==
    /\ received # <<>>
    /\ received' = Tail(received)
    /\ step' = [step EXCEPT ![Head(received)] = "presence"]
    /\ UNCHANGED <<token, attempt, backoff, pushed, outcome, sent, skipped, errors,
                   up, subscribed, user>>

\* The channel closes: Run returns an error and its events are gone; the
\* goroutines of earlier events go on.
SubscriptionCloses ==
    /\ Change
    /\ subscribed
    /\ subscribed' = FALSE
    /\ received' = <<>>
    /\ step' = [p \in Pubs |-> IF step[p] = "queued" THEN "lost" ELSE step[p]]
    /\ UNCHANGED <<token, attempt, backoff, pushed, outcome, sent, skipped, errors,
                   up, online, pushToken>>

\* "restarting in 2s": Run subscribes again.  Also the first Run of a process.
Resubscribe ==
    /\ up /\ ~subscribed
    /\ subscribed' = TRUE
    /\ UNCHANGED <<handlers, up, received, user>>

Running(p) == step[p] \in {"presence", "token", "deliver", "backoff"}

\* SIGTERM: main returns without waiting for the goroutines of handle.
Shutdown ==
    /\ Change
    /\ up
    /\ up' = FALSE /\ subscribed' = FALSE /\ received' = <<>>
    /\ step' = [p \in Pubs |-> IF step[p] = "queued" \/ Running(p) THEN "lost"
                               ELSE IF step[p] = "done" THEN "past" ELSE step[p]]
    /\ sent' = 0 /\ skipped' = 0 /\ errors' = 0
    /\ UNCHANGED <<token, attempt, backoff, pushed, outcome, online, pushToken>>

\* The container is started again; the metrics start from zero.
Restart ==
    /\ ~up
    /\ up' = TRUE
    /\ UNCHANGED <<handlers, subscribed, received, user>>

-----------------------------------------------------------------------------
(* handle *)

Return(p, how) ==
    /\ step' = [step EXCEPT ![p] = "done"]
    /\ outcome' = [outcome EXCEPT ![p] = how]

\* NotificationsSkipped.Inc(), then return.
MutantSkipGoesOn(p, how) ==
    /\ step' = [step EXCEPT ![p] = "token"]
    /\ outcome' = [outcome EXCEPT ![p] = how]
    /\ skipped' = skipped + 1
Skip(p, how) ==
    /\ Return(p, how)
    /\ skipped' = skipped + 1

\* isOnline; when Redis does not answer the recipient counts as offline.
CheckPresence(p) ==
    /\ step[p] = "presence"
    /\ \/ online /\ Skip(p, "online")
       \/ /\ step' = [step EXCEPT ![p] = "token"]
          /\ UNCHANGED <<outcome, skipped>>
    /\ UNCHANGED <<token, attempt, backoff, pushed, sent, errors, service, user>>

\* GetPushToken: an error counts as no token.
FetchToken(p) ==
    /\ step[p] = "token"
    /\ \/ /\ pushToken # None
          /\ token' = [token EXCEPT ![p] = pushToken]
          /\ step' = [step EXCEPT ![p] = "deliver"]
          /\ attempt' = [attempt EXCEPT ![p] = 1]
          /\ backoff' = [backoff EXCEPT ![p] = 1]
          /\ UNCHANGED <<outcome, skipped>>
       \/ /\ Skip(p, "no_token")
          /\ UNCHANGED <<token, attempt, backoff>>
    /\ UNCHANGED <<pushed, sent, errors, service, user>>

\* attempt == maxAttempts
MutantOneAttemptLess(p) == attempt[p] >= MaxAttempts - 1
LastAttempt(p) == attempt[p] = MaxAttempts

\* What happens once deliver returned nil.
Delivered(p) ==
    /\ Return(p, "sent")
    /\ sent' = sent + 1

\* deliver, with the outcomes a backend may have.
DeliverWithRetry(p) ==
    /\ step[p] = "deliver"
    /\ \/ /\ pushed' = [pushed EXCEPT ![p] = @ + 1]
          /\ Delivered(p)
          /\ UNCHANGED errors
       \/ /\ LastAttempt(p)
          /\ Return(p, "failed")
          /\ errors' = errors + 1
          /\ UNCHANGED <<pushed, sent>>
       \/ /\ ~LastAttempt(p)
          /\ step' = [step EXCEPT ![p] = "backoff"]
          /\ UNCHANGED <<pushed, outcome, sent, errors>>
    /\ UNCHANGED <<token, attempt, backoff, skipped, service, user>>

\* attempt++ of the loop
MutantSameAttempt(p) == attempt
NextAttempt(p) == [attempt EXCEPT ![p] = @ + 1]

MutantStartsOver(p) ==
    /\ step[p] = "backoff"
    /\ step' = [step EXCEPT ![p] = "deliver"]
    /\ attempt' = [attempt EXCEPT ![p] = 1]
    /\ backoff' = [backoff EXCEPT ![p] = 1]
    /\ UNCHANGED <<token, pushed, outcome, sent, skipped, errors, service, user>>
\* time.After(backoff); handle's context is never cancelled.
WaitEnds(p) ==
    /\ step[p] = "backoff"
    /\ step' = [step EXCEPT ![p] = "deliver"]
    /\ attempt' = NextAttempt(p)
    /\ backoff' = [backoff EXCEPT ![p] = 2 * @]
    /\ UNCHANGED <<token, pushed, outcome, sent, skipped, errors, service, user>>

-----------------------------------------------------------------------------
Handle(p) == CheckPresence(p) \/ FetchToken(p) \/ DeliverWithRetry(p) \/ WaitEnds(p)

NotifierNext ==
    \/ ToggleOnline
    \/ \E t \in Tokens : RegisterPushToken(t)
    \/ \E p \in Pubs : PublishMessageCreated(p) \/ Handle(p)
    \/ Receive \/ SubscriptionCloses \/ Resubscribe \/ Shutdown \/ Restart

NotifierSpec == NotifierInit /\ [][NotifierNext]_notifierVars

\* The goroutines of a running service go on.
NotifierFairSpec == NotifierSpec /\ WF_notifierVars(Receive) /\ \A p \in Pubs : WF_notifierVars(Handle(p))

-----------------------------------------------------------------------------
(* Properties *)

\* The variables have their types; a goroutine that delivers has a token, and is
\* at an attempt deliverWithRetry may make, after a backoff it may have had.
NotifierTypeOK ==
    /\ up \in BOOLEAN /\ subscribed \in BOOLEAN /\ online \in BOOLEAN /\ received \in Seq(Pubs)
    /\ step \in [Pubs -> {"none", "queued", "lost", "presence", "token", "deliver",
                        "backoff", "done", "past"}]
    /\ token \in [Pubs -> Tokens \cup {None}] /\ pushToken \in Tokens \cup {None}
    /\ attempt \in [Pubs -> 0 .. MaxAttempts] /\ backoff \in [Pubs -> Nat]
    /\ pushed \in [Pubs -> Nat]
    /\ outcome \in [Pubs -> {None, "online", "no_token", "sent", "failed"}]
    /\ sent \in Nat /\ skipped \in Nat /\ errors \in Nat /\ changes \in 0 .. MaxChanges
    /\ \A p \in Pubs : step[p] \in {"deliver", "backoff"} =>
          token[p] # None /\ attempt[p] > 0 /\ backoff[p] = 2 ^ (attempt[p] - 1)

\* The metrics of a process account for every event its goroutines are done
\* with, exactly once, whatever fails (NotificationsSent, NotificationsSkipped and
\* NotificationErrors of handle), and an event was pushed once if it counts as
\* sent and not at all otherwise, retries included.
EveryEventCounted ==
    /\ sent + skipped + errors = Cardinality({p \in Pubs : step[p] = "done"})
    /\ \A p \in Pubs : pushed[p] = IF outcome[p] = "sent" THEN 1 ELSE 0

\* Every event handle takes on ends, whatever fails, unless the process does.
EveryEventEnds == \A p \in Pubs : Running(p) ~> ~Running(p)

\* An event that is queued for the service is pushed if the recipient stays
\* offline with a push token and the service stays up, unless the token could not
\* be fetched or deliver failed maxAttempts times.
OfflineIsNotified ==
    \A p \in Pubs :
        (step[p] = "queued" /\ [](~online /\ pushToken # None /\ up /\ subscribed))
            ~> \/ pushed[p] > 0 \/ outcome[p] = "no_token"
               \/ outcome[p] = "failed" /\ attempt[p] = MaxAttempts
=============================================================================
