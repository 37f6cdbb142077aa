---------------------------- MODULE ConsentShell ----------------------------
(***************************************************************************)
(* The desktop shell's consent store (apps/desktop-shell, consent.ts) in   *)
(* front of the consent broker: the shell polls the broker for the front   *)
(* request and shows it, the user clicks, the shell hides the dialog at    *)
(* once and sends the answer by request id.  Polls and answers travel over *)
(* connections of their own and may overlap; the broker may restart        *)
(* between any two steps.                                                  *)
(***************************************************************************)
EXTENDS ConsentBroker

CONSTANT Polls   \* consent_fetch calls in flight at one time

VARIABLES
    current,   \* the view on screen, {} when there is none
    answered,  \* ids this shell has answered
    poll,      \* per poll: where it is and what the broker told it
    click,     \* per control connection: the answer it carries
    decided    \* <<lifetime, id>> of the requests whose answer reached the broker

shell == <<current, answered, poll, click, decided>>
shellVars == <<vars, shell>>

\* PendingView::of; labelled with the lifetime of the broker that sent it.
View(p) == [id |-> p.id, req |-> p.req, tier |-> p.tier, epoch |-> restarts]

Quiet == [state |-> "idle", view |-> {}]
NoClick == [state |-> "idle"]

ShellInit ==
    /\ Init
    /\ current = {}
    /\ answered = {}
    /\ poll = [f \in Polls |-> Quiet]
    /\ click = [k \in Handlers |-> NoClick]
    /\ decided = {}
-----------------------------------------------------------------------------
(* pollConsent. *)

PollSend(f) ==
    /\ poll[f].state = "idle"
    /\ poll' = [poll EXCEPT ![f].state = "sent"]
    /\ UNCHANGED <<vars, current, answered, click, decided>>

\* SharedState::front_view answers with a snapshot.
PollServe(f) ==
    /\ poll[f].state = "sent"
    /\ poll' = [poll EXCEPT ![f] = [state |-> "served", view |-> {View(p) : p \in {q \in queue : IsFront(q)}}]]
    /\ UNCHANGED <<vars, current, answered, click, decided>>

\* Mutant: a reply from before the click is shown.
ShowTrusting(view) == current' = view /\ UNCHANGED answered

\* What a reply does to the screen.
Show(view) ==
    \/ view = {} /\ answered' = {} /\ current' = {}
    \/ view # {} /\ (\E v \in view : v.id \in answered) /\ UNCHANGED <<answered, current>>
    \/ view # {} /\ (\A v \in view : v.id \notin answered) /\ current' = view /\ UNCHANGED answered

PollReturns(f) ==
    /\ poll[f].state = "served"
    /\ Show(poll[f].view)
    /\ poll' = [poll EXCEPT ![f] = Quiet]
    /\ UNCHANGED <<vars, click, decided>>

\* The call failed: nothing is shown.
PollFails(f) ==
    /\ poll[f].state = "failed"
    /\ current' = {}
    /\ poll' = [poll EXCEPT ![f] = Quiet]
    /\ UNCHANGED <<vars, answered, click, decided>>
-----------------------------------------------------------------------------
(* resolve. *)

Click(k, outcome) ==
    /\ click[k] = NoClick /\ ctl[k] = Idle
    /\ \E v \in current :
          /\ answered' = answered \cup {v.id}
          /\ click' = [click EXCEPT ![k] = [state |-> "sent", view |-> v, outcome |-> outcome]]
    /\ current' = {}
    /\ UNCHANGED <<vars, poll, decided>>

\* Mutant: the broker takes the answer for the front of its queue.
DeliverToFront(k) ==
    /\ click[k].state = "sent"
    /\ \/ \E p \in queue :
            /\ IsFront(p)
            /\ Resolve(k, p, click[k].outcome)
            /\ click' = [click EXCEPT ![k].state = "serving"]
            /\ decided' = decided \cup {<<restarts, p.id>>}
       \/ /\ queue = {}
          /\ click' = [click EXCEPT ![k] = NoClick]
          /\ UNCHANGED <<vars, decided>>
    /\ UNCHANGED <<current, answered, poll>>

\* The broker takes the answer by its id; an id that is not pending changes
\* nothing and is answered at once.
Deliver(k) ==
    /\ click[k].state = "sent"
    /\ \/ \E p \in queue :
            /\ p.id = click[k].view.id
            /\ Resolve(k, p, click[k].outcome)
            /\ click' = [click EXCEPT ![k].state = "serving"]
            /\ decided' = decided \cup {<<restarts, p.id>>}
       \/ /\ \A p \in queue : p.id # click[k].view.id
          /\ click' = [click EXCEPT ![k] = NoClick]
          /\ UNCHANGED <<vars, decided>>
    /\ UNCHANGED <<current, answered, poll>>

\* The answer does not reach the broker.
ClickLost(k) ==
    /\ click[k].state = "sent"
    /\ click' = [click EXCEPT ![k].state = "failed"]
    /\ UNCHANGED <<vars, current, answered, poll, decided>>

\* Mutant: a failed answer is only logged.
ClickFailsQuietly(k) ==
    /\ click[k].state = "failed"
    /\ click' = [click EXCEPT ![k] = NoClick]
    /\ UNCHANGED <<vars, answered, current, poll, decided>>

\* The catch gives the dialog back.
ClickFails(k) ==
    /\ click[k].state = "failed"
    /\ answered' = answered \ {click[k].view.id}
    /\ click' = [click EXCEPT ![k] = NoClick]
    /\ UNCHANGED <<vars, current, poll, decided>>
-----------------------------------------------------------------------------
(* The broker's own steps: the end of a served answer is its reply to the    *)
(* shell, a restart fails every call that has no reply yet.                  *)

ShellServe(k) ==
    /\ Serve(k)
    /\ click' = IF ctl'[k] = Idle THEN [click EXCEPT ![k] = NoClick] ELSE click
    /\ UNCHANGED <<current, answered, poll, decided>>

ShellRestart ==
    /\ Restart
    /\ poll' = [f \in Polls |-> IF poll[f].state = "sent" THEN [poll[f] EXCEPT !.state = "failed"]
                                ELSE poll[f]]
    /\ click' = [k \in Handlers |-> IF click[k] = NoClick THEN NoClick
                                    ELSE [click[k] EXCEPT !.state = "failed"]]
    /\ UNCHANGED <<current, answered, decided>>

Asks(c) ==
    /\ Intake(c) \/ CallerLeaves(c)
    /\ UNCHANGED shell
-----------------------------------------------------------------------------
ShellNext ==
    \/ \E c \in Callers : Asks(c)
    \/ \E f \in Polls : PollSend(f) \/ PollServe(f) \/ PollReturns(f) \/ PollFails(f)
    \/ \E k \in Handlers, outcome \in Outcomes : Click(k, outcome)
    \/ \E k \in Handlers : Deliver(k) \/ ClickLost(k) \/ ClickFails(k) \/ ShellServe(k)
    \/ ShellRestart

ShellSpec == ShellInit /\ [][ShellNext]_shellVars

\* The interval timer keeps polling and every call ends; an answer does not get
\* lost for ever, and the user answers a dialog that keeps being shown.
ShellFairness ==
    /\ \A f \in Polls : WF_shellVars(PollSend(f) \/ PollServe(f) \/ PollReturns(f) \/ PollFails(f))
    /\ \A k \in Handlers : WF_shellVars(ClickFails(k) \/ ShellServe(k)) /\ SF_shellVars(Deliver(k))
    /\ SF_shellVars(\E k \in Handlers, outcome \in Outcomes : Click(k, outcome))

FairShellSpec == ShellSpec /\ ShellFairness
-----------------------------------------------------------------------------
\* The request handler k resolves is the one the user saw when they clicked.
ResolvesItsView(k) ==
    ctl[k].id = click[k].view.id /\ HandleOf(ctl[k]) = HandleOf(click[k].view.req)

\* Within one lifetime of the broker an answer never lands on another question
\* than the one that was on screen, although it names its request by id only and
\* the queue changes between the poll, the click and the delivery.
AnswersOfThisLifetime ==
    \A k \in Handlers : click[k].state = "serving" /\ click[k].view.epoch = restarts
                        => ResolvesItsView(k)

\* A dialog whose answer reached the broker does not come back with the poll
\* reply that was in flight at the click, until the broker is first restarted.
\* This needs polls that do not overlap: an empty reply to a later poll forgets
\* the answered ids, and a reply to an earlier one then restores the dialog.
AnsweredStaysDown ==
    restarts = 0 /\ (\A f, g \in Polls : f = g) =>
        \A v \in current : <<v.epoch, v.id>> \notin decided

\* Every caller of the broker's first lifetime that waits is answered in the
\* end, by way of the dialog and however often an answer is lost, or dies with
\* that broker.
DialogReachesTheUser ==
    \A c \in Callers :
        conn[c].state = "waiting" /\ conn[c].epoch = 0 ~> conn[c].state # "waiting"
=============================================================================
