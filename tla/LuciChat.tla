------------------------------ MODULE LuciChat ------------------------------
(***************************************************************************)
(* The chat view of LuCI (chat.js), the rpcd bridge it calls               *)
(* (luci.leschat) and what they see of one daemon.                         *)
(*                                                                         *)
(* The view polls the whole history every 2 s and sends through rpcd, whose *)
(* wget gives up after 2 s although the daemon, busy until then, may still  *)
(* read and store the message.  A send that was not answered is therefore  *)
(* looked up in the history.  Other pages of the node and its peers write   *)
(* into the same history.  A call that brings no object at all, but a ubus  *)
(* status or a text that is no JSON, counts as sent.                        *)
(*                                                                         *)
(* A message is its rank in the order of compareMessages, whether this node *)
(* wrote it, its text, and (unknown to the view) the submission it stems    *)
(* from.  Ranks come in any order: clocks of nodes differ and are stepped.  *)
(***************************************************************************)
EXTENDS Integers, FiniteSets, SequencesExt

CONSTANTS
    Ranks,        \* the messages that may be written
    Bodies,       \* what is typed, without the blanks around it
    NoText,       \* the input is empty
    MaxSends,     \* bound: submissions
    MaxReloads,   \* bound: the page is loaded again
    MaxCrashes    \* bound: the daemon stops

ASSUME RanksAssumption == Ranks \subseteq Nat
ASSUME SendsAssumption == MaxSends \in Nat
ASSUME BoundsAssumption == MaxReloads \in Nat /\ MaxCrashes \in Nat

VARIABLES
    up,         \* the daemon answers on its port
    history,    \* messages_ of its store
    posted,     \* submissions whose POST it has not read yet: number |-> text
    shown,      \* the list, from top to bottom; its ids are knownIds
    phase,      \* of the submission: "idle", "posting", "answered", "blank",
                \* "confirming" or "listed"
    typed,      \* its text, body
    before,     \* knownBeforeSend
    reply,      \* messages that the last reply to it holds
    hint,       \* "", "sending", "sent" or "failed"
    disabled,   \* input and button are disabled
    live,       \* liveRunning
    nodeKnown,  \* localNodeId is not empty
    status,     \* of the poll under way: "none", "asked", "ok" or "down"
    listing,    \* of the poll under way: {} until answered, else {messages}
    sends,      \* number of the last submission
    reloads,
    crashes

daemon == <<up, history, posted, crashes>>
submission == <<phase, typed, before, reply, sends>>
poll == <<status, listing>>
vars == <<daemon, shown, submission, hint, disabled, live, nodeKnown, poll, reloads>>

Message == [rank : Ranks, own : BOOLEAN, body : Bodies, by : 0..MaxSends]

TypeOK ==
    /\ up \in BOOLEAN /\ disabled \in BOOLEAN /\ live \in BOOLEAN /\ nodeKnown \in BOOLEAN
    /\ history \subseteq Message
    /\ DOMAIN posted \subseteq 1..sends /\ \A n \in DOMAIN posted : posted[n] \in Bodies
    /\ shown \in Seq(history)
    /\ phase \in {"idle", "posting", "answered", "blank", "confirming", "listed"}
    /\ typed \in Bodies \cup {NoText}
    /\ before \subseteq history /\ reply \subseteq history
    /\ hint \in {"", "sending", "sent", "failed"}
    /\ status \in {"none", "asked", "ok", "down"}
    /\ listing \subseteq SUBSET history /\ Cardinality(listing) <= 1
    /\ sends \in 0..MaxSends /\ reloads \in 0..MaxReloads
    /\ crashes \in 0..MaxCrashes
    /\ phase # "idle" => disabled

\* A page that was opened on an empty history.
Init ==
    /\ up = TRUE
    /\ history = {}
    /\ posted = <<>>
    /\ shown = <<>>
    /\ phase = "idle"
    /\ typed = NoText
    /\ before = {}
    /\ reply = {}
    /\ hint = ""
    /\ disabled = FALSE
    /\ live = TRUE
    /\ nodeKnown = TRUE
    /\ status = "none"
    /\ listing = {}
    /\ sends = 0
    /\ reloads = 0
    /\ crashes = 0

-----------------------------------------------------------------------------
(* The daemon *)

Unused == Ranks \ {m.rank : m \in history}

\* Another page of this node, or a peer through replication or sync.
OtherWriter(r, own, b) ==
    /\ up
    /\ r \in Unused
    /\ history' = history \cup {[rank |-> r, own |-> own, body |-> b, by |-> 0]}
    /\ UNCHANGED <<up, crashes, posted, shown, submission, hint, disabled, live, nodeKnown,
                   poll, reloads>>

\* call_send has connected and written its request.
Connect(n, b) ==
    [k \in DOMAIN posted \cup {n} |-> IF k = n THEN b ELSE posted[k]]

Forget(n) == [k \in DOMAIN posted \ {n} |-> posted[k]]

\* create_message reads and stores submission n.  The reply is of use only
\* while the wget of call_send is waiting for it.
HandlePost(n, r) ==
    LET m == [rank |-> r, own |-> TRUE, body |-> posted[n], by |-> n]
    IN  /\ up
        /\ r \in Unused
        /\ history' = history \cup {m}
        /\ posted' = Forget(n)
        /\ IF phase = "posting" /\ n = sends
           THEN phase' = "answered" /\ reply' = {m}
           ELSE UNCHANGED <<phase, reply>>
        /\ UNCHANGED <<up, crashes, shown, typed, before, sends, hint, disabled, live,
                       nodeKnown, poll, reloads>>

\* Answered 400 or 500: wget prints nothing and call_send reports an error,
\* upon which confirmStored asks for the history.
RefusePost(n) ==
    /\ up
    /\ posted' = Forget(n)
    /\ phase' = IF phase = "posting" /\ n = sends THEN "confirming" ELSE phase
    /\ UNCHANGED <<up, crashes, history, shown, typed, before, reply, sends, hint, disabled,
                   live, nodeKnown, poll, reloads>>

\* The process ends, and with it the connections it had not read.
Crash ==
    /\ up /\ crashes < MaxCrashes
    /\ crashes' = crashes + 1
    /\ up' = FALSE
    /\ posted' = <<>>
    /\ UNCHANGED <<history, shown, submission, hint, disabled, live, nodeKnown,
                   poll, reloads>>

Start ==
    /\ ~up
    /\ up' = TRUE
    /\ UNCHANGED <<crashes, history, posted, shown, submission, hint, disabled, live,
                   nodeKnown, poll, reloads>>

-----------------------------------------------------------------------------
(* The list *)

KnownIds == Range(shown)

\* Mutant of AppendMessage: a new message goes to the end.
AppendLast(list, m) == IF m \in Range(list) THEN list ELSE Append(list, m)

\* appendMessage: nothing when its id is known, else before the first message
\* that compares greater.
AppendMessage(list, m) ==
    LET greater == {i \in DOMAIN list : m.rank < list[i].rank}
    IN  IF m \in Range(list) THEN list
        ELSE IF greater = {} THEN Append(list, m)
        ELSE InsertAt(list, Min(greater), m)

\* get_messages sorts what it sends, and fillMessages sorts it again, both by
\* time, origin, sequence and id.
ByRank(messages) ==
    CHOOSE s \in [1..Cardinality(messages) -> messages] :
        \A i, j \in DOMAIN s : i < j => s[i].rank < s[j].rank

\* Mutant of AppendMessages: only messages after the last one are new.
AppendNewer(list, incoming) ==
    list \o SelectSeq(incoming, LAMBDA m : list = <<>> \/ m.rank > Last(list).rank)

\* incoming.forEach: appendMessage of one message after the other.
AppendMessages(list, incoming) ==
    LET lists[n \in 0..Len(incoming)] ==
            IF n = 0 THEN list ELSE AppendMessage(lists[n - 1], incoming[n])
    IN  lists[Len(incoming)]

-----------------------------------------------------------------------------
(* Sending *)

Submit(b) ==
    /\ phase = "idle" /\ ~disabled
    /\ sends < MaxSends
    /\ sends' = sends + 1
    /\ phase' = "posting"
    /\ typed' = b
    /\ before' = KnownIds
    /\ disabled' = TRUE
    /\ hint' = "sending"
    /\ posted' = IF up THEN Connect(sends + 1, b) ELSE posted
    /\ UNCHANGED <<up, crashes, history, shown, reply, live, nodeKnown, poll, reloads>>

\* The wget of call_send gives up after 2 s, or finds nobody on the port; or
\* the reply of rpcd does not reach the browser.
SendFails ==
    /\ phase \in {"posting", "answered"}
    /\ phase' = "confirming"
    /\ reply' = {}
    /\ UNCHANGED <<daemon, shown, typed, before, sends, hint, disabled, live,
                   nodeKnown, poll, reloads>>

\* callSend resolves, but not to an object: normalizeRpcResult makes it {}, with
\* neither an error nor a message.
SendBlank ==
    /\ phase \in {"posting", "answered"}
    /\ phase' = "blank"
    /\ reply' = {}
    /\ UNCHANGED <<daemon, shown, typed, before, sends, hint, disabled, live,
                   nodeKnown, poll, reloads>>

\* confirmStored: callMessages is answered.  Its connection is younger than
\* that of the POST, so the daemon has read the POST by then.
ConfirmListed ==
    /\ phase = "confirming"
    /\ up /\ sends \notin DOMAIN posted
    /\ phase' = "listed"
    /\ reply' = history
    /\ UNCHANGED <<daemon, shown, typed, before, sends, hint, disabled, live,
                   nodeKnown, poll, reloads>>

\* call_messages gives up after 2 s as well, and answers with no messages.
ConfirmFails ==
    /\ phase = "confirming"
    /\ phase' = "listed"
    /\ reply' = {}
    /\ UNCHANGED <<daemon, shown, typed, before, sends, hint, disabled, live,
                   nodeKnown, poll, reloads>>

\* The finally clause.
Finish ==
    /\ phase' = "idle"
    /\ reply' = {}
    /\ before' = {}
    /\ typed' = NoText
    /\ disabled' = ~live
    /\ UNCHANGED <<daemon, sends, live, nodeKnown, poll, reloads>>

\* markSent: of the reply to callSend, or of what confirmStored found.  A reply
\* with no message is sent as well.
MarkSent(messages) ==
    /\ \/ messages = {} /\ UNCHANGED shown
       \/ \E m \in messages : shown' = AppendMessage(shown, m)
    /\ hint' = "sent"
    /\ Finish

SendAnswered ==
    /\ phase \in {"answered", "blank"}
    /\ MarkSent(reply)

\* Mutant of Stored: knownBeforeSend is not looked at.
StoredAnytime ==
    {m \in reply : m.body = typed /\ (nodeKnown => m.own)}

\* What confirmStored takes for the message: this text, by this node as far as
\* the view knows the node, and not in the list when it was submitted.
Stored ==
    {m \in reply : m.body = typed /\ (nodeKnown => m.own) /\ m \notin before}

\* The loop starts from the end of the history.
Confirmed ==
    /\ phase = "listed"
    /\ \E m \in Stored :
          /\ \A o \in Stored : o.rank <= m.rank
          /\ MarkSent({m})

CouldNotSend ==
    /\ phase = "listed"
    /\ Stored = {}
    /\ hint' = "failed"
    /\ Finish
    /\ UNCHANGED shown

-----------------------------------------------------------------------------
(* Polling and loading *)

\* LuCI's poll starts no call while the last one is under way.
Poll ==
    /\ status = "none"
    /\ status' = "asked"
    /\ listing' = {}
    /\ UNCHANGED <<daemon, shown, submission, hint, disabled, live, nodeKnown, reloads>>

\* call_status and call_messages fetch separately.
PollStatus(answer) ==
    /\ status = "asked"
    /\ answer = "ok" => up
    /\ status' = answer
    /\ UNCHANGED <<daemon, shown, submission, hint, disabled, live, nodeKnown,
                   listing, reloads>>

PollListed(messages) ==
    /\ status # "none" /\ listing = {}
    /\ (messages = history /\ up) \/ messages = {}
    /\ listing' = {messages}
    /\ UNCHANGED <<daemon, shown, submission, hint, disabled, live, nodeKnown,
                   status, reloads>>

\* Both answers are in: the list is completed, and the composer follows the
\* daemon if it is to be switched.  rpcd knows the node id of a daemon that is
\* down; a call to rpcd that fails brings none.
PollDoneSwitches(switch) ==
    /\ status \in {"ok", "down"}
    /\ \E messages \in listing :
          shown' = AppendMessages(shown, ByRank(messages))
    /\ nodeKnown' \in {TRUE} \cup {known \in {nodeKnown} : status = "down"}
    /\ live' = (status = "ok")
    /\ disabled' = IF switch THEN ~live' ELSE disabled
    /\ status' = "none"
    /\ listing' = {}
    /\ UNCHANGED <<daemon, submission, hint, reloads>>

\* Mutants of PollDone: the composer is switched while a message is being
\* sent, or never.
PollDoneAlways == PollDoneSwitches(TRUE)
PollDoneNever == PollDoneSwitches(FALSE)

\* if (!this.sending)
PollDone == PollDoneSwitches(phase = "idle")

\* load, render and fillMessages of a new page; what the old one was waiting
\* for is forgotten, what it had posted is not.
Reload(answer, messages) ==
    /\ reloads < MaxReloads
    /\ reloads' = reloads + 1
    /\ answer = "ok" => up
    /\ (messages = history /\ up) \/ messages = {}
    /\ shown' = ByRank(messages)
    /\ live' = (answer = "ok")
    /\ nodeKnown' \in {TRUE} \cup {known \in {FALSE} : answer = "down"}
    /\ disabled' = ~live'
    /\ phase' = "idle"
    /\ typed' = NoText
    /\ before' = {}
    /\ reply' = {}
    /\ hint' = ""
    /\ status' = "none"
    /\ listing' = {}
    /\ UNCHANGED <<daemon, sends>>

\* call_status: the daemon's status, or dump_unreachable.
Answers == {"ok", "down"}

Next ==
    \/ \E r \in Ranks, own \in BOOLEAN, b \in Bodies : OtherWriter(r, own, b)
    \/ \E n \in DOMAIN posted : RefusePost(n) \/ \E r \in Ranks : HandlePost(n, r)
    \/ Crash \/ Start
    \/ \E b \in Bodies : Submit(b)
    \/ SendFails \/ SendBlank \/ SendAnswered
    \/ ConfirmListed \/ ConfirmFails \/ Confirmed \/ CouldNotSend
    \/ Poll
    \/ \E answer \in Answers : PollStatus(answer)
    \/ \E messages \in {history, {}} : PollListed(messages)
    \/ PollDone
    \/ \E answer \in Answers, messages \in {history, {}} : Reload(answer, messages)

Spec == Init /\ [][Next]_vars

\* The browser runs its callbacks, wget gives up after 2 s, the timer of the
\* poll fires, and procd starts the daemon again.  Of the fetches tried again
\* and again, not all fail for ever.
Fairness ==
    /\ WF_vars(Start) /\ WF_vars(Poll) /\ WF_vars(PollDone)
    /\ WF_vars(\E answer \in Answers : PollStatus(answer))
    /\ WF_vars(\E messages \in {history, {}} : PollListed(messages))
    /\ SF_vars(PollStatus("ok")) /\ SF_vars(up /\ PollListed(history))
    /\ WF_vars(SendFails \/ SendAnswered)
    /\ WF_vars(ConfirmFails \/ Confirmed \/ CouldNotSend)

FairSpec == Spec /\ Fairness

-----------------------------------------------------------------------------
\* Messages stand in the order of compareMessages and each of them once,
\* whichever of poll, reply and confirmation brings it first.
ListInOrder ==
    \A i, j \in DOMAIN shown : i < j => shown[i].rank < shown[j].rank

\* "Sent" that rests on a message is shown with a message of this text in the
\* list that was not there when it was submitted: the submission's own one when
\* the daemon's reply has come through, and one of this node, as far as the view
\* knows its node, when confirmStored has looked it up.  However late replies
\* and polls are, what the list had before the submission does not pass for it.
\* (A blank reply rests on nothing; and an own message of the same text that was
\* stored before the submission, but not polled yet, does pass for it.)
SentIsShown ==
    [][hint' = "sent" /\ hint # "sent" /\ phase # "blank" =>
          \E m \in Range(shown') :
             /\ m.body = typed
             /\ m \notin before
             /\ nodeKnown => m.own
             /\ phase = "answered" => m.by = sends]_vars

\* Once nobody writes, an open page comes to list all that is stored, the
\* messages too whose sending was reported as failed, although fetches fail.
EveryMessageListed == []<>(history \subseteq Range(shown))

\* The composer comes back after every submission and every outage.
ComposerComesBack == []<>(phase = "idle" /\ ~disabled)

\* "Could not send the message" is not shown beside the very message.
NoMisleadingFailure ==
    hint = "failed" => \A m \in Range(shown) : m.by # sends
=============================================================================
