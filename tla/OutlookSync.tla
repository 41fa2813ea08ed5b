----------------------------- MODULE OutlookSync -----------------------------
(***************************************************************************)
(* core/outlook_sync.py: polls of one project's inbox.  A poll lists the   *)
(* unread messages, persists an EMAIL_RECEIVED event for each and then     *)
(* marks it read.  Polls may overlap: it is a helper and a command.        *)
(*                                                                         *)
(* External: the mailbox of Microsoft Graph, in which only polls mark      *)
(* messages read; PostgreSQL.  Each event has an id of its own, so that    *)
(* the same mail may be on the bus more than once.                         *)
(***************************************************************************)
EXTENDS Integers

CONSTANTS
  Mails, NoMail,
  Pollers,        \* processes that poll the inbox
  MaxPollFaults   \* bound: calls that fail and polls that stop

ASSUME OutlookConstants ==
  NoMail \notin Mails /\ MaxPollFaults \in Nat

VARIABLES
  inbox,      \* "absent", "unread" or "read"
  emailed,    \* messages with an EMAIL_RECEIVED event
  poll,       \* the polls
  pollFaults

outlookVars == << inbox, emailed, poll, pollFaults >>

\* "left" are listed messages that the poll has not taken yet.
Poll == [at : {"idle", "scanning", "marking"}, left : SUBSET Mails, mail : Mails \cup {NoMail}]

IdlePoll == [at |-> "idle", left |-> {}, mail |-> NoMail]

OutlookTypeOK ==
  /\ inbox \in [Mails -> {"absent", "unread", "read"}]
  /\ emailed \subseteq Mails
  /\ poll \in [Pollers -> Poll]
  /\ \A x \in Pollers : poll[x].at = "marking" <=> poll[x].mail \in Mails
  /\ pollFaults \in 0..MaxPollFaults

OutlookInit ==
  /\ inbox = [m \in Mails |-> "absent"]
  /\ emailed = {}
  /\ poll = [x \in Pollers |-> IdlePoll]
  /\ pollFaults = 0

MailArrives(m) ==
  /\ inbox[m] = "absent"
  /\ inbox' = [inbox EXCEPT ![m] = "unread"]
  /\ UNCHANGED << emailed, poll, pollFaults >>

PollFault == pollFaults < MaxPollFaults /\ pollFaults' = pollFaults + 1

-----------------------------------------------------------------------------
(* poll_project_inbox.                                                      *)

Unread == {m \in Mails : inbox[m] = "unread"}

_list_unread_inbox(x) ==
  /\ poll[x].at = "idle"
  /\ Unread # {}
  /\ poll' = [poll EXCEPT ![x].at = "scanning", ![x].left = Unread]
  /\ UNCHANGED << inbox, emailed, pollFaults >>

AlwaysTrue(persisted) == TRUE
record_ingress_event(persisted) == persisted

\* A message whose event was persisted is marked next, another is left unread.
KeepsMail(p, m, ok) ==
  [p EXCEPT !.left = @ \ {m}, !.at = IF ok THEN "marking" ELSE "scanning", !.mail = m]
Emitted(p, m, ok) ==
  [p EXCEPT !.left = @ \ {m}, !.at = IF ok THEN "marking" ELSE "scanning",
            !.mail = IF ok THEN m ELSE NoMail]

EmitEmail(x) ==
  /\ poll[x].at = "scanning"
  /\ \E m \in poll[x].left, persisted \in BOOLEAN :
       /\ IF persisted THEN emailed' = emailed \cup {m} /\ UNCHANGED pollFaults
          ELSE PollFault /\ UNCHANGED emailed
       /\ poll' = [poll EXCEPT ![x] = Emitted(@, m, record_ingress_event(persisted))]
  /\ UNCHANGED inbox

\* A failure is only logged.  (If Graph marked the message all the same, that is
\* the first case here.)
_mark_message_read(x) ==
  /\ poll[x].at = "marking"
  /\ \/ inbox' = [inbox EXCEPT ![poll[x].mail] = "read"] /\ UNCHANGED pollFaults
     \/ UNCHANGED inbox /\ PollFault
  /\ poll' = [poll EXCEPT ![x].at = "scanning", ![x].mail = NoMail]
  /\ UNCHANGED emailed

PollEnds(x) ==
  /\ poll[x].at = "scanning"
  /\ poll[x].left = {}
  /\ poll' = [poll EXCEPT ![x] = IdlePoll]
  /\ UNCHANGED << inbox, emailed, pollFaults >>

\* The process stops.
PollStops(x) ==
  /\ poll[x].at # "idle"
  /\ PollFault
  /\ poll' = [poll EXCEPT ![x] = IdlePoll]
  /\ UNCHANGED << inbox, emailed >>

RunPoll(x) ==
  _list_unread_inbox(x) \/ EmitEmail(x) \/ _mark_message_read(x) \/ PollEnds(x)

OutlookNext ==
  \/ \E m \in Mails : MailArrives(m)
  \/ \E x \in Pollers : RunPoll(x) \/ PollStops(x)

OutlookSpec == OutlookInit /\ [][OutlookNext]_outlookVars

\* Polls are started again and again.
OutlookFairness == \A x \in Pollers : WF_outlookVars(RunPoll(x))
-----------------------------------------------------------------------------
(* Correctness.                                                             *)

\* A message that is read, or about to be marked, has its event.
MarkedAreEmailed ==
  /\ \A m \in Mails : inbox[m] = "read" => m \in emailed
  /\ \A x \in Pollers : poll[x].at = "marking" => poll[x].mail \in emailed

\* The poller implements AtLeastOnce: no mail is marked read, and so lost to all
\* later polls, without an event on the bus, and each mail gets there and is
\* marked at last, although calls fail and polls stop and overlap.
Delivery ==
  INSTANCE AtLeastOnce
    WITH Items <- Mails,
         arrived <- {m \in Mails : inbox[m] # "absent"},
         delivered <- emailed,
         settled <- {m \in Mails : inbox[m] = "read"}

ImplementsAtLeastOnce == Delivery!FairSpec
=============================================================================
