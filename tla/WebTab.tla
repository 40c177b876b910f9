------------------------------- MODULE WebTab -------------------------------
(***************************************************************************)
(* One browser tab of the web application (src/apps/web): `panel` names    *)
(* the client component it shows, `ui` is that component's state.          *)
(*                                                                         *)
(* The components of this application share no mutable state with each     *)
(* other, except where a module says so: Construct extends CommandPalette, *)
(* and the model forms extend TurnstileWidget.  A tab that shows several   *)
(* of them behaves as each does alone, so their union is all there is to   *)
(* explore, and the promises they have in common are stated here, once     *)
(* for all of them.  Bounds that are not constants here are given where a  *)
(* component is instantiated.                                              *)
(***************************************************************************)
EXTENDS Integers

CONSTANTS
  MaxRuns,     \* bound: load tests started
  MaxEvents,   \* bound: lab events sent
  MaxReads,    \* bound: polls of a panel
  MaxTokens,   \* bound: bot checks solved in a form
  MaxAsk,      \* bound: requests of a form
  Queries,     \* the DB explorer's queries
  Endpoints,   \* the API playground's endpoints
  Dirs,        \* the directories of the sandbox shell
  MaxCmds,     \* bound: shell and console commands submitted
  Assets,      \* the files the authenticity panel hashes
  MaxPulls,    \* bound: pulls of a dashboard's poll
  MaxFrames,   \* bound: metrics frames broadcast
  MaxResults,  \* commands of the palette that match at most
  Cards,       \* the station cards of the immersive resume
  MaxBlooms    \* bound: blooms of a card

\* "none" stands for no card, a query of the palette may match nothing, and there is
\* something to hash (AUTH_ASSETS, data/authenticity.generated.ts).
ASSUME TabAssumption == "none" \notin Cards /\ MaxResults \in Nat /\ Assets # {}

VARIABLES panel, ui

vars == <<panel, ui>>

\* The lab.
Load == INSTANCE LoadPanel WITH MaxC <- 3
Events == INSTANCE EventsPanel WITH MaxRows <- 2, MinDelay <- 3, MaxDelay <- 30
Chaos == INSTANCE ChaosPanel WITH MaxPods <- 1, MaxPolls <- MaxReads
RateLimit == INSTANCE RateLimitPanel WITH PollMs <- 2000, AbortMs <- 3000
Waf == INSTANCE WafPanel WITH PollMs <- 4000, AbortMs <- 3000, MaxPolls <- MaxReads,
                              MaxProbes <- 2
Db == INSTANCE DbExplorerPanel
Api == INSTANCE ApiPlaygroundPanel WITH Total <- 5, PageSize <- 2
Shell == INSTANCE ShellPanel WITH MaxLines <- 5
Gpu == INSTANCE GpuFieldPanel

\* The model forms.  "p" is a project and a station too.
Oracle == INSTANCE OracleChat WITH MaxTrace <- 2,
            Projects <- {"p"}, Stations <- {"p", "s"}, Pages <- {"g"}, Writeups <- {"w"}
Jd == INSTANCE JdForm
Studio == INSTANCE StudioPanel
Infer == INSTANCE LocalInfer
Matrix == INSTANCE RevealText WITH Scrambles <- TRUE, MaxTexts <- 3

\* The dashboards.
Dash == INSTANCE SystemDash WITH MinDelay <- 3, MaxDelay <- 30
Polls == INSTANCE SystemPolls
Status == INSTANCE StatusBoard WITH Surfaces <- <<"uptime">>, OnMount <- FALSE
Deep == INSTANCE StatusBoard WITH Surfaces <- <<"deep", "volume">>, OnMount <- TRUE
Resume == INSTANCE ResumePanel WITH MaxFiles <- 2
Auth == INSTANCE AuthenticityPanel
CountUp == INSTANCE RevealText WITH Scrambles <- FALSE, MaxTexts <- 3

\* The console, and the immersive resume with the palette.
Boot == INSTANCE ConsoleBoot WITH LineLen <- <<2, 1>>
Cli == INSTANCE Console WITH MaxLog <- 5,
         Projects <- {"p"}, Stations <- {"p", "s"}, Pages <- {"g"}, Writeups <- {"w"}
Construct == INSTANCE Construct
Camera == INSTANCE ConstructCamera WITH Gaps <- <<0, 2>>, Heights <- {4, 6, 12},
                                        Viewports <- {10, 12}, Scrolls <- {9}, HelixFrom <- 2
Audio == INSTANCE ConstructAudio
Rain == INSTANCE ConstructRain WITH Texts <- {"t1", "t2"}, MaxFocus <- 2

Init ==
  \/ panel = "load" /\ Load!Init
  \/ panel = "events" /\ Events!Init
  \/ panel = "chaos" /\ Chaos!Init
  \/ panel = "ratelimit" /\ RateLimit!Init
  \/ panel = "waf" /\ Waf!Init
  \/ panel = "db" /\ Db!Init
  \/ panel = "api" /\ Api!Init
  \/ panel = "shell" /\ Shell!Init
  \/ panel = "gpu" /\ Gpu!Init
  \/ panel = "oracle" /\ Oracle!Init
  \/ panel = "jd" /\ Jd!Init
  \/ panel = "studio" /\ Studio!Init
  \/ panel = "infer" /\ Infer!Init
  \/ panel = "resume" /\ Resume!Init
  \/ panel = "auth" /\ Auth!Init
  \/ panel = "dash" /\ Dash!Init
  \/ panel = "polls" /\ Polls!Init
  \/ panel = "status" /\ Status!Init
  \/ panel = "deep" /\ Deep!Init
  \/ panel = "boot" /\ Boot!Init
  \/ panel = "cli" /\ Cli!Init
  \/ panel = "construct" /\ Construct!Init
  \/ panel = "camera" /\ Camera!Init
  \/ panel = "audio" /\ Audio!Init
  \/ panel = "rain" /\ Rain!Init
  \/ panel = "matrix" /\ Matrix!Init
  \/ panel = "countup" /\ CountUp!Init

Next ==
  /\ UNCHANGED panel
  /\ \/ panel = "load" /\ Load!Next
     \/ panel = "events" /\ Events!Next
     \/ panel = "chaos" /\ Chaos!Next
     \/ panel = "ratelimit" /\ RateLimit!Next
     \/ panel = "waf" /\ Waf!Next
     \/ panel = "db" /\ Db!Next
     \/ panel = "api" /\ Api!Next
     \/ panel = "shell" /\ Shell!Next
     \/ panel = "gpu" /\ Gpu!Next
     \/ panel = "oracle" /\ Oracle!Next
     \/ panel = "jd" /\ Jd!Next
     \/ panel = "studio" /\ Studio!Next
     \/ panel = "infer" /\ Infer!Next
     \/ panel = "resume" /\ Resume!Next
     \/ panel = "auth" /\ Auth!Next
     \/ panel = "dash" /\ Dash!Next
     \/ panel = "polls" /\ Polls!Next
     \/ panel = "status" /\ Status!Next
     \/ panel = "deep" /\ Deep!Next
     \/ panel = "boot" /\ Boot!Next
     \/ panel = "cli" /\ Cli!Next
     \/ panel = "construct" /\ Construct!Next
     \/ panel = "camera" /\ Camera!Next
     \/ panel = "audio" /\ Audio!Next
     \/ panel = "rain" /\ Rain!Next
     \/ panel = "matrix" /\ Matrix!Next
     \/ panel = "countup" /\ CountUp!Next

\* What the browser and the servers do by themselves: a request settles, a timer
\* fires, a frame is drawn, a stream ends, a navigation commits.
\* AlsoSettles has what goes on beside that in the components that wait for two
\* things at once: a visitor who keeps one of them busy does not hold up the other.
Settles ==
  /\ UNCHANGED panel
  /\ \/ panel = "load" /\ Load!End
     \/ panel = "chaos" /\ Chaos!OnKill
     \/ panel = "ratelimit" /\ RateLimit!OnHammered
     \/ panel = "waf" /\ (Waf!OnVerdict \/ Waf!OnRefused)
     \/ panel = "db" /\ (Db!OnRan \/ Db!OnRefused)
     \/ panel = "api" /\ (Api!OnResult \/ Api!OnFailure)
     \/ panel = "shell" /\ Shell!Answered
     \/ panel = "gpu" /\ Gpu!Answered
     \/ panel = "oracle" /\ Oracle!Answered
     \/ panel = "jd" /\ (Jd!OnResult \/ Jd!OnRefused \/ Jd!OnThrow)
     \/ panel = "studio" /\ Studio!Answered
     \/ panel = "infer" /\ Infer!Answered
     \/ panel = "resume" /\ Resume!Answered
     \/ panel = "auth" /\ Auth!Answered
     \/ panel = "dash" /\ Dash!Answered
     \/ panel = "polls" /\ Polls!OnTrace
     \/ panel = "status" /\ Status!Answered
     \/ panel = "deep" /\ Deep!Answered
     \/ panel = "boot" /\ Boot!Answered
     \/ panel = "cli" /\ Cli!Answered
     \/ panel = "construct" /\ Construct!Answered
     \/ panel = "camera" /\ Camera!Answered
     \/ panel = "audio" /\ Audio!Answered
     \/ panel = "rain" /\ Rain!Answered
     \/ panel = "matrix" /\ Matrix!Answered
     \/ panel = "countup" /\ CountUp!Answered
AlsoSettles ==
  /\ UNCHANGED panel
  /\ \/ panel = "chaos" /\ (Chaos!OnStatus \/ Chaos!OnPollError \/ Chaos!SettleBack \/ Chaos!CoolDown)
     \/ panel = "ratelimit" /\ (RateLimit!OnPoll \/ RateLimit!OnReread)
     \/ panel = "waf" /\ (Waf!OnPoll)
     \/ panel = "db" /\ (Db!OnMenu \/ Db!OnMenuError)
     \/ panel = "api" /\ (Api!OnMinted \/ Api!OnPage \/ Api!OnPageRefused)
     \/ panel = "jd" /\ (Jd!CopyTimer)
     \/ panel = "polls" /\ (Polls!OnPulled)

Spec == Init /\ [][Next]_vars
FairSpec == Spec /\ WF_vars(Settles) /\ WF_vars(AlsoSettles)

-----------------------------------------------------------------------------
\* What is on screen is about what it claims to be about, whatever the order in which
\* answers, timers, reconnects and clicks arrive: a result is the one of the latest
\* request (the query shown, the probe sent, the file dropped), never stands beside
\* the error or the spinner of another, a link that is up is not called severed, a
\* conversation and a shell transcript pair each answer with its question, the
\* stations stand where the cards as measured put them, and the console links to a
\* context that the oracle page resolves to the same thing.  Each component's own
\* ShownIsCurrent says it precisely, with the exceptions the code has.
ShownIsCurrent ==
  CASE panel = "load" -> Load!ShownIsCurrent
    [] panel = "events" -> Events!ShownIsCurrent
    [] panel = "chaos" -> Chaos!ShownIsCurrent
    [] panel = "ratelimit" -> RateLimit!ShownIsCurrent
    [] panel = "waf" -> Waf!ShownIsCurrent
    [] panel = "db" -> Db!ShownIsCurrent
    [] panel = "api" -> Api!ShownIsCurrent
    [] panel = "shell" -> Shell!ShownIsCurrent
    [] panel = "oracle" -> Oracle!ShownIsCurrent
    [] panel = "jd" -> Jd!ShownIsCurrent
    [] panel = "studio" -> Studio!ShownIsCurrent
    [] panel = "infer" -> Infer!ShownIsCurrent
    [] panel = "resume" -> Resume!ShownIsCurrent
    [] panel = "auth" -> Auth!ShownIsCurrent
    [] panel = "dash" -> Dash!ShownIsCurrent
    [] panel = "polls" -> Polls!ShownIsCurrent
    [] panel = "boot" -> Boot!ShownIsCurrent
    [] panel = "cli" -> Cli!ShownIsCurrent /\ \A c \in ui.ctx : Oracle!parseCtx(c) = {c}
    [] panel = "construct" -> Construct!ShownIsCurrent
    [] panel = "camera" -> Camera!ShownIsCurrent
    [] panel = "audio" -> Audio!ShownIsCurrent
    [] panel = "rain" -> Rain!ShownIsCurrent
    [] panel = "matrix" -> Matrix!ShownIsCurrent
    [] panel = "countup" -> CountUp!ShownIsCurrent
    [] OTHER -> TRUE

\* Nothing runs twice and nothing is left running: a component has the one stream,
\* poll loop, frame or timer that its state on screen implies, a form waits exactly
\* while a request of its is out, and after the unmount there is none (the cleanups
\* of the effects).  This is what duplicated or leaked EventSources, timers, frames
\* and contexts would break.
LoopsMatch ==
  CASE panel = "load" -> Load!StreamsMatch
    [] panel = "events" -> Events!StreamsMatch
    [] panel = "chaos" -> Chaos!LoopsMatch
    [] panel = "ratelimit" -> RateLimit!LoopsMatch
    [] panel = "shell" -> Shell!RecallInRange
    [] panel = "gpu" -> Gpu!LoopsMatch /\ Gpu!Released
    [] panel = "oracle" -> Oracle!BusyMatches
    [] panel = "infer" -> Infer!BusyMatches
    [] panel = "auth" -> Auth!BusyMatches
    [] panel = "dash" -> Dash!LoopsMatch
    [] panel = "polls" -> Polls!LoopsMatch
    [] panel = "status" -> Status!LoopsMatch
    [] panel = "deep" -> Deep!LoopsMatch
    [] panel = "boot" -> Boot!LoopsMatch
    [] panel = "cli" -> Cli!RecallInRange
    [] panel = "audio" -> Audio!LoopsMatch
    [] panel = "rain" -> Rain!LoopsMatch
    [] panel = "matrix" -> Matrix!LoopsMatch
    [] panel = "countup" -> CountUp!LoopsMatch
    [] OTHER -> TRUE

\* A Turnstile token works once: no form has a request out that carries a token which
\* an answered request has used (resetRef after every response), although tokens
\* expire, the widget fails and requests fail before they are answered.
FreshToken ==
  CASE panel = "oracle" -> Oracle!FreshToken
    [] panel = "jd" -> Jd!FreshToken
    [] panel = "studio" -> Studio!FreshToken
    [] panel = "infer" -> Infer!FreshToken
    [] OTHER -> TRUE

\* Readings never go back to older ones: polls that overlap, are aborted or are
\* answered late, frames of a reopened stream, and, on touch, the viewport of the
\* immersive page, which only a turn of the device may shrink.  SystemPolls says
\* where the code has no guard against it.
SnapshotsForward == [][
  CASE panel = "waf" -> Waf!SnapshotsForward
    [] panel = "dash" -> Dash!SnapshotsForward
    [] panel = "polls" -> Polls!SnapshotsForward
    [] panel = "status" -> Status!SnapshotsForward
    [] panel = "deep" -> Deep!SnapshotsForward
    [] panel = "boot" -> Boot!SnapshotsForward
    [] panel = "camera" -> Camera!SnapshotsForward
    [] OTHER -> TRUE]_vars

\* A layer above the page contains it and is undone with it: the palette makes the
\* shell inert and keeps the focus, a bloomed card locks the page and makes the
\* other cards inert, and none of it outlives the layer or the route, whichever
\* keys, timers, animations and navigations come in between.
Modal == panel = "construct" => Construct!ModalContained

\* One Escape undoes one layer: the palette's handler, the capturing listener of the
\* bloom and the shell's listener, which leaves the page, see the same event.
OneEscape == [][panel = "construct" => Construct!OneEscape]_vars

\* What the visitor waits for comes: the notice that a request is out, the skeleton,
\* the boot overlay, the veil and the hidden cards.  Without this a form that ignores
\* input while it waits stays locked for ever.
Waiting ==
  CASE panel = "load" -> ui.mounted /\ ui.running
    [] panel = "chaos" -> ui.mounted /\ ui.killing
    [] panel = "ratelimit" -> ui.mounted /\ ui.hammering
    [] panel = "waf" -> ui.mounted /\ ui.busy
    [] panel = "db" -> ui.mounted /\ ui.kind = "running"
    [] panel = "api" -> ui.mounted /\ ui.busy
    [] panel = "shell" -> ui.pending
    [] panel = "oracle" -> ui.mounted /\ Oracle!View.thinking
    [] panel = "jd" -> ui.out # {}
    [] panel = "studio" -> ui.out # {}
    [] panel = "infer" -> ui.stream # {}
    [] panel = "auth" -> ui.mounted /\ ui.running
    [] panel = "dash" -> Dash!Waiting
    [] panel = "polls" -> Polls!Waiting
    [] panel = "boot" -> Boot!Waiting
    [] panel = "construct" -> Construct!Waiting
    [] panel = "rain" -> Rain!Waiting
    [] panel = "matrix" -> Matrix!Waiting
    [] OTHER -> FALSE
Quiet ==
  CASE panel = "chaos" -> Chaos!Idle
    [] panel = "ratelimit" -> RateLimit!Idle
    [] panel = "waf" -> Waf!Idle
    [] panel = "db" -> Db!Idle
    [] panel = "api" -> Api!Idle
    [] panel = "gpu" -> Gpu!Idle
    [] panel = "oracle" -> Oracle!Idle
    [] panel = "jd" -> Jd!Idle
    [] panel = "studio" -> Studio!Idle
    [] panel = "infer" -> Infer!Idle
    [] panel = "resume" -> Resume!Idle
    [] panel = "auth" -> Auth!Idle
    [] panel = "dash" -> Dash!Idle
    [] panel = "polls" -> Polls!Idle
    [] panel = "status" -> Status!Idle
    [] panel = "deep" -> Deep!Idle
    [] panel = "boot" -> Boot!Idle
    [] panel = "cli" -> Cli!Idle
    [] panel = "camera" -> Camera!Idle
    [] panel = "audio" -> Audio!Idle
    [] panel = "rain" -> Rain!Idle
    [] panel = "matrix" -> Matrix!Idle
    [] panel = "countup" -> CountUp!Idle
    [] OTHER -> TRUE

\* Nothing stays pending after the component is gone either.
Resolves == /\ Waiting ~> ~Waiting
            /\ panel \notin {"shell", "construct"} /\ ~ui.mounted ~> Quiet
=============================================================================
