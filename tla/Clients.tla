------------------------------- MODULE Clients -------------------------------
(***************************************************************************)
(* The Verify Lab: its page (app/console/verify-lab/VerifyLabClient.tsx),  *)
(* the two capture flows it mounts (app/verify/CaptureFlow.tsx and         *)
(* FingerprintFlow.tsx) and the two routes they call (app/api/console/     *)
(* verify-lab).  Buttons, camera and scanner prompts, server work and      *)
(* answers interleave; what a closure began goes on when its screen is     *)
(* gone.  Mounting a flow for a new session forgets the old one's state.   *)
(***************************************************************************)
EXTENDS NoValue
CONSTANTS
  Ticket,        \* capture sessions created, by their client token
  Upload,        \* submissions of captures
  Prompt,        \* camera or scanner prompts open at once
  Choice         \* what is selected in this instance (a bound)

Modality == {"face", "fingerprint"}
Purpose == {"enrolment", "verification"}
Wish == [modality : Modality, purpose : Purpose]
AtFirst == [modality |-> "fingerprint", purpose |-> "enrolment"]

ASSUME ChoiceAssumption == Choice \subseteq Wish

VARIABLES
  lab,       \* the page: key configured, what is selected, what it waits for, its session
  cookie,    \* the lab's key: "none", "good" or "dead" (revoked, without the scope, too old)
  tickets,   \* rows of capture_sessions: what each is for and whether it is used, or None
  flow,      \* state of the mounted flow
  prompts,   \* which session's flow each open prompt belongs to and what for, or None
  uploads,   \* submissions: as sent, and how far they are, or None
  agreed     \* history: sessions whose notice was agreed to

clientVars == <<lab, cookie, tickets, flow, prompts, uploads, agreed>>

Step == {"notice", "instructions", "challenge", "source", "uploading", "result", "error"}
Flow == [step : Step, consented : BOOLEAN, agent : {"probing", "available", "unavailable"},
         stream : BOOLEAN, shown : BOOLEAN, decision : Upload \cup {None}]
Mounted == [step |-> "notice", consented |-> FALSE, agent |-> "probing",
            stream |-> FALSE, shown |-> FALSE, decision |-> None]
Sent == [ticket : Ticket, wish : Wish, is : {"sent", "decided", "refused"}, waiting : BOOLEAN]

Session == [wish : Wish, used : BOOLEAN]
Asked == [ticket : Ticket, wish : Wish]
ASSUME NoneIsNoClientRow == None \notin Ticket \cup Upload \cup Wish \cup Session \cup Asked \cup Sent

ClientsTypeOK ==
  /\ lab \in [configured : BOOLEAN, wish : Wish, asked : Wish \cup {None}, session : Ticket \cup {None}]
  /\ cookie \in {"none", "good", "dead"}
  /\ tickets \in [Ticket -> Session \cup {None}]
  /\ flow \in Flow
  /\ prompts \in [Prompt -> Asked \cup {None}]
  /\ uploads \in [Upload -> Sent \cup {None}]
  /\ agreed \subseteq Ticket

ClientsInit ==
  /\ lab = [configured |-> FALSE, wish |-> AtFirst,
            asked |-> None, session |-> None]
  /\ cookie = "none"
  /\ tickets = [t \in Ticket |-> None]
  /\ flow = Mounted
  /\ prompts = [p \in Prompt |-> None]
  /\ uploads = [u \in Upload |-> None]
  /\ agreed = {}

-----------------------------------------------------------------------------
\* The lab page.  configure: the key is checked, a production key refused, the cookie set.
Configure ==
  /\ ~lab.configured
  /\ cookie' = "good" /\ lab' = [lab EXCEPT !.configured = TRUE]
  /\ UNCHANGED <<tickets, flow, prompts, uploads, agreed>>

\* The reset call may fail unnoticed, and the cookie stay.
ForgetKey ==
  /\ lab.configured
  /\ lab' = [lab EXCEPT !.configured = FALSE, !.session = None]
  /\ cookie' \in {"none", cookie}
  /\ UNCHANGED <<tickets, flow, prompts, uploads, agreed>>

KeyDies ==
  /\ cookie = "good" /\ cookie' = "dead"
  /\ UNCHANGED <<lab, tickets, flow, prompts, uploads, agreed>>

\* Modality, purpose and subject stay selectable while a session is being created.
Select(wish) ==
  /\ lab.configured
  /\ lab' = [lab EXCEPT !.wish = wish, !.session = None]
  /\ UNCHANGED <<cookie, tickets, flow, prompts, uploads, agreed>>

StartSession ==
  /\ lab.configured /\ lab.asked = None
  /\ lab' = [lab EXCEPT !.asked = lab.wish, !.session = None]
  /\ UNCHANGED <<cookie, tickets, flow, prompts, uploads, agreed>>

\* POST {action: "session"}: cookie and key checked, a session for what was asked then.
SessionCreated(t) ==
  /\ lab.asked # None /\ cookie = "good" /\ tickets[t] = None
  /\ tickets' = [tickets EXCEPT ![t] = [wish |-> lab.asked, used |-> FALSE]]
  /\ lab' = [lab EXCEPT !.asked = None, !.session = t]
  /\ flow' = Mounted
  /\ UNCHANGED <<cookie, prompts, uploads, agreed>>

SessionRefused ==
  /\ lab.asked # None
  /\ lab' = [lab EXCEPT !.asked = None]
  /\ UNCHANGED <<cookie, tickets, flow, prompts, uploads, agreed>>

-----------------------------------------------------------------------------
Shows(modality) == lab.configured /\ lab.session # None /\ lab.wish.modality = modality
Steps(a, b) == flow.step = a /\ flow' = [flow EXCEPT !.step = b]
OnPage == UNCHANGED <<lab, cookie, tickets, prompts, uploads, agreed>>

Tick ==
  /\ lab.configured /\ lab.session # None /\ flow.step = "notice"
  /\ flow' = [flow EXCEPT !.consented = ~@]
  /\ agreed' = IF flow.consented THEN agreed ELSE agreed \cup {lab.session}
  /\ UNCHANGED <<lab, cookie, tickets, prompts, uploads>>

\* Entering "source" probes for the scanner agent.
Continue ==
  /\ flow.consented
  /\ \/ Shows("face") /\ Steps("notice", "instructions")
     \/ /\ Shows("fingerprint") /\ flow.step = "notice"
        /\ flow' = [flow EXCEPT !.step = "source", !.agent = "probing"]
  /\ OnPage

Back ==
  /\ \/ Shows("face") /\ Steps("instructions", "notice")
     \/ Shows("fingerprint") /\ flow.agent # "probing" /\ Steps("source", "notice")
  /\ OnPage

\* Nothing probes before "source" is entered, and from there Back waits for the probe.
ProbeEnds ==
  /\ Shows("fingerprint") /\ flow.agent = "probing" /\ flow.step # "notice"
  /\ \E found \in {"available", "unavailable"} : flow' = [flow EXCEPT !.agent = found]
  /\ OnPage

CheckAgain ==
  /\ Shows("fingerprint") /\ flow.step = "source" /\ flow.agent = "unavailable"
  /\ flow' = [flow EXCEPT !.agent = "probing"]
  /\ OnPage

\* "Open camera", "Capture fingerprint", or (without an agent, in development) a file to read.
\* The button can be pressed again, and the screen left, while the prompt is open.
Ask(p) ==
  /\ \/ Shows("face") /\ flow.step = "instructions"
     \/ Shows("fingerprint") /\ flow.step = "source" /\ flow.agent # "probing"
  /\ prompts[p] = None
  /\ prompts' = [prompts EXCEPT ![p] = [ticket |-> lab.session, wish |-> lab.wish]]
  /\ UNCHANGED <<lab, cookie, tickets, flow, uploads, agreed>>

IsFor(p, modality) == prompts[p] # None /\ prompts[p].wish.modality = modality
IsMounted(ticket) == lab.configured /\ lab.session = ticket
Closes(p) == prompts' = [prompts EXCEPT ![p] = None]
\* Mutant: a flow is not mounted anew for a new session.
SetsOnPage(ticket, state) == flow' = state

\* What a closure sets of a flow that is gone is lost.
Sets(ticket, state) == flow' = IF IsMounted(ticket) THEN state ELSE flow

\* CaptureFlow.  The stream goes to the <video> element if there is one, and only the challenge
\* and uploading screens mount it; the step becomes "challenge" whatever it was.
HasVideo == flow.step \in {"challenge", "uploading"}
CameraOpens(p) ==
  /\ IsFor(p, "face") /\ Closes(p)
  /\ Sets(prompts[p].ticket, [flow EXCEPT !.stream = TRUE, !.step = "challenge", !.shown = HasVideo])
  /\ UNCHANGED <<lab, cookie, tickets, uploads, agreed>>

PromptFails(p) ==
  /\ prompts[p] # None /\ Closes(p)
  /\ Sets(prompts[p].ticket, [flow EXCEPT !.step = "error", !.shown = FALSE])
  /\ UNCHANGED <<lab, cookie, tickets, uploads, agreed>>

CancelCamera ==
  /\ Shows("face") /\ flow.step = "challenge"
  /\ flow' = [flow EXCEPT !.step = "instructions", !.stream = FALSE, !.shown = FALSE]
  /\ OnPage

Sends(u, ticket, wish) ==
  /\ uploads[u] = None
  /\ uploads' = [uploads EXCEPT ![u] = [ticket |-> ticket, wish |-> wish, is |-> "sent", waiting |-> TRUE]]

\* captureAndSubmit: a video without a stream gives an empty canvas, and that no image.
Capture(u) ==
  /\ Shows("face") /\ flow.step = "challenge" /\ flow.stream
  /\ \/ flow.shown /\ Sends(u, lab.session, lab.wish)
        /\ flow' = [flow EXCEPT !.step = "uploading", !.stream = FALSE]
     \/ ~flow.shown /\ UNCHANGED uploads
        /\ flow' = [flow EXCEPT !.step = "error", !.stream = FALSE]
  /\ UNCHANGED <<lab, cookie, tickets, prompts, agreed>>

\* FingerprintFlow.  submitImage follows at once, from whatever screen the page is on by then.
ScannerAnswers(p, u) ==
  /\ IsFor(p, "fingerprint") /\ Closes(p)
  /\ Sends(u, prompts[p].ticket, prompts[p].wish)
  /\ Sets(prompts[p].ticket, [flow EXCEPT !.step = "uploading"])
  /\ UNCHANGED <<lab, cookie, tickets, agreed>>

-----------------------------------------------------------------------------
\* POST .../submit: cookie and key checked; the session is spent before its purpose and modality
\* are compared, and a decision or a template follows only when they fit and the call succeeds.
Submit(u) ==
  LET sent == uploads[u]
      row == tickets[sent.ticket]
  IN /\ sent # None /\ sent.is = "sent"
     /\ \/ /\ cookie = "good" /\ ~row.used
           /\ tickets' = [tickets EXCEPT ![sent.ticket].used = TRUE]
           /\ \E is \in (IF sent.wish = row.wish THEN {"decided", "refused"} ELSE {"refused"}) :
                uploads' = [uploads EXCEPT ![u].is = is]
        \/ /\ cookie # "good" \/ row.used
           /\ uploads' = [uploads EXCEPT ![u].is = "refused"]
           /\ UNCHANGED tickets
     /\ UNCHANGED <<lab, cookie, flow, prompts, agreed>>

AnswerArrives(u) ==
  LET sent == uploads[u] IN
  /\ sent # None /\ sent.waiting /\ sent.is # "sent"
  /\ uploads' = [uploads EXCEPT ![u].waiting = FALSE]
  /\ Sets(sent.ticket, IF sent.is = "decided"
                       THEN [flow EXCEPT !.step = "result", !.decision = u, !.shown = FALSE]
                       ELSE [flow EXCEPT !.step = "error", !.shown = FALSE])
  /\ UNCHANGED <<lab, cookie, tickets, prompts, agreed>>

\* The connection breaks, before the server has worked or after: "Nothing was stored."
ConnectionBreaks(u) ==
  /\ uploads[u] # None /\ uploads[u].waiting
  /\ uploads' = [uploads EXCEPT ![u].waiting = FALSE]
  /\ Sets(uploads[u].ticket, [flow EXCEPT !.step = "error", !.shown = FALSE])
  /\ UNCHANGED <<lab, cookie, tickets, prompts, agreed>>

LabStep ==
  \/ Configure \/ ForgetKey \/ KeyDies \/ StartSession \/ SessionRefused
  \/ \E wish \in Choice : Select(wish)
  \/ \E t \in Ticket : SessionCreated(t)
FlowStep ==
  \/ Tick \/ Continue \/ Back \/ ProbeEnds \/ CheckAgain \/ CancelCamera
  \/ \E p \in Prompt : Ask(p) \/ CameraOpens(p) \/ PromptFails(p) \/ \E u \in Upload : ScannerAnswers(p, u)
  \/ \E u \in Upload : Capture(u) \/ Submit(u) \/ AnswerArrives(u) \/ ConnectionBreaks(u)

ClientsNext == LabStep \/ FlowStep
ClientsSpec == ClientsInit /\ [][ClientsNext]_clientVars

-----------------------------------------------------------------------------
\* Whatever is pressed while prompts, calls and answers are under way: nothing is sent before
\* the notice of that session was agreed to (though the tick may be gone by then), a session is
\* decided at most once, and a result on the screen answers the session it is shown for, made
\* for the purpose and modality the session was created for.
FlowsAreHonest ==
  /\ \A u \in Upload : uploads[u] # None => uploads[u].ticket \in agreed
  /\ \A u, v \in Upload : u # v /\ uploads[u] # None /\ uploads[v] # None /\ uploads[u].ticket = uploads[v].ticket =>
       "decided" \notin {uploads[u].is} \cap {uploads[v].is}
  /\ flow.decision # None =>
       /\ uploads[flow.decision].is = "decided"
       /\ lab.session \in {uploads[flow.decision].ticket, None}
       /\ tickets[uploads[flow.decision].ticket].wish = uploads[flow.decision].wish

\* "Camera ready.": the challenge screen shows the stream it asks the user to look into.
CameraIsShown == flow.step = "challenge" => flow.shown
=============================================================================
