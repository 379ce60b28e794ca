-------------------------- MODULE HostDaemonProofs --------------------------
(***************************************************************************)
(* Each service of the daemon implements Link, for any number of           *)
(* WebSockets; what begins with S is about the signaling service (module   *)
(* RelayLink), with R about the reporter (IpReporter).  Their invariants   *)
(* say that at most one thing of the service is under way, a WebSocket or  *)
(* the timer, and that a service that is not stopped knows its WebSocket:  *)
(* the check `_socket != null` in _connect would otherwise let the link    *)
(* end in nothing, and a done event of one socket forget another.          *)
(*                                                                         *)
(* A step of the daemon, of the other service or of the relay is a step of *)
(* the service or leaves it alone, so what is proved of a service carries  *)
(* over to the daemon.                                                     *)
(***************************************************************************)
EXTENDS HostDaemon, TLAPS

-----------------------------------------------------------------------------
(* The signaling service *)

SActive == {c \in SignalConns : sConn[c] # "free"}

\* One WebSocket at a time, and none while the timer runs.
SOneChain ==
  /\ \A c, d \in SActive : c = d
  /\ sTimer => SActive = {}

\* What a service that has not been stopped knows of its WebSockets.
SKnown ==
  ~sDisposed =>
    /\ sSub = sSocket
    /\ sHeard = IF sSocket = None THEN {} ELSE {sSocket}
    /\ sSocket # None => sConn[sSocket] \in {"open", "ended"}
    /\ \A c \in SignalConns : sConn[c] \in {"open", "ended"} => sSocket = c
    /\ sStopping = "no"
    /\ sStarted => sTimer \/ SActive # {}

SBefore ==
  ~sStarted => ~sDisposed /\ ~sTimer /\ SActive = {}

SStopped == sDisposed => ~sTimer

SInv == None \notin SignalConns /\ S!TypeOK /\ SOneChain /\ SKnown /\ SBefore /\ SStopped

-----------------------------------------------------------------------------
LEMMA SInitInv == None \notin SignalConns /\ S!Init => SInv
BY DEF S!Init, SInv, S!TypeOK, S!ConnState, SOneChain, SActive, SKnown, SBefore, SStopped

\* _connect, called with nothing under way, begins a dial.
LEMMA SConnectDials ==
  ASSUME SInv, S!Connect, ~sDisposed, sSocket = None, SActive = {}
  PROVE  \E c \in SignalConns :
           sConn' = [d \in SignalConns |-> IF d = c THEN "dialing" ELSE "free"]
BY DEF SInv, S!TypeOK, S!Connect, S!Turns, SActive

\* A service that is not stopped and has no WebSocket under way knows of none.
LEMMA SIdleKnowsNone ==
  ASSUME SInv, ~sDisposed, SActive = {}
  PROVE  sSocket = None
BY DEF SInv, S!TypeOK, SKnown, SActive

LEMMA SStartKeepsInv ==
  ASSUME SInv, S!Start
  PROVE  SInv'
<1>1. ~sDisposed /\ SActive = {} /\ ~sTimer /\ sSocket = None
  BY SIdleKnowsNone DEF S!Start, SInv, SBefore
<1>2. PICK c \in SignalConns :
        sConn' = [d \in SignalConns |-> IF d = c THEN "dialing" ELSE "free"]
  BY <1>1, SConnectDials DEF S!Start
<1>3. SActive' = {c}
  BY <1>2 DEF SActive
<1>. QED
  BY <1>1, <1>2, <1>3
  DEF S!Start, SInv, S!TypeOK, S!ConnState, SOneChain, SKnown, SBefore, SStopped

LEMMA STimerFiresKeepsInv ==
  ASSUME SInv, S!TimerFires
  PROVE  SInv'
<1>1. ~sDisposed /\ SActive = {} /\ sStarted /\ sSocket = None
  BY SIdleKnowsNone DEF S!TimerFires, SInv, SOneChain, SBefore, SStopped
<1>2. PICK c \in SignalConns :
        sConn' = [d \in SignalConns |-> IF d = c THEN "dialing" ELSE "free"]
  BY <1>1, SConnectDials DEF S!TimerFires
<1>3. SActive' = {c}
  BY <1>2 DEF SActive
<1>. QED
  BY <1>1, <1>2, <1>3
  DEF S!TimerFires, SInv, S!TypeOK, S!ConnState, SOneChain, SKnown, SBefore, SStopped

\* A step of one WebSocket that is under way leaves it the only one.
LEMMA SOneMoves ==
  ASSUME SInv, NEW c \in SignalConns, NEW from \in S!ConnState \ {"free"}, NEW to \in S!ConnState,
         S!Turns(c, from, to)
  PROVE  /\ SActive = {c} /\ ~sTimer /\ sStarted
         /\ sConn' = [d \in SignalConns |-> IF d = c THEN to ELSE "free"]
         /\ sConn' \in [SignalConns -> S!ConnState]
         /\ SActive' = IF to = "free" THEN {} ELSE {c}
<1>1. sConn \in [SignalConns -> S!ConnState] /\ sConn[c] = from /\ from # "free"
  BY DEF SInv, S!TypeOK, S!Turns
<1>2. SActive = {c}
  BY <1>1 DEF SInv, SOneChain, SActive
<1>3. ~sTimer /\ sStarted
  BY <1>2 DEF SInv, SOneChain, SBefore, S!TypeOK
<1>4. sConn' = [d \in SignalConns |-> IF d = c THEN to ELSE "free"]
  <2>1. \A d \in SignalConns : d # c => sConn[d] = "free"
    BY <1>2 DEF SActive
  <2>. QED
    BY <1>1, <2>1 DEF S!Turns
<1>5. sConn' \in [SignalConns -> S!ConnState]
  BY <1>4 DEF S!ConnState
<1>6. SActive' = IF to = "free" THEN {} ELSE {c}
  BY <1>4 DEF SActive
<1>. QED
  BY <1>2, <1>3, <1>4, <1>5, <1>6

LEMMA SDialSucceedsKeepsInv ==
  ASSUME SInv, NEW c \in SignalConns, S!DialSucceeds(c)
  PROVE  SInv'
<1>1. /\ SActive = {c} /\ SActive' = {c} /\ ~sTimer /\ sStarted
      /\ sConn' = [d \in SignalConns |-> IF d = c THEN "open" ELSE "free"]
      /\ sConn' \in [SignalConns -> S!ConnState]
  BY SOneMoves DEF S!DialSucceeds, S!ConnState
<1>2. ~sDisposed => sHeard = {}
  <2>1. sConn[c] = "dialing"
    BY DEF S!DialSucceeds, S!Turns
  <2>2. ASSUME ~sDisposed, sSocket # None
        PROVE  FALSE
    <3>1. sConn[sSocket] \in {"open", "ended"} /\ sSocket \in SignalConns
      BY <2>2 DEF SInv, SKnown, S!TypeOK
    <3>. QED
      BY <3>1, <2>1, <1>1 DEF SActive
  <2>. QED
    BY <2>2 DEF SInv, SKnown
<1>. QED
  BY <1>1, <1>2
  DEF S!DialSucceeds, SInv, S!TypeOK, SOneChain, SKnown, SBefore, SStopped

LEMMA SDialFailsKeepsInv ==
  ASSUME SInv, NEW c \in SignalConns, S!DialFails(c)
  PROVE  SInv'
<1>1. /\ SActive = {c} /\ SActive' = {} /\ ~sTimer /\ sStarted
      /\ sConn' = [d \in SignalConns |-> "free"]
      /\ sConn' \in [SignalConns -> S!ConnState]
  BY SOneMoves DEF S!DialFails, S!ConnState
<1>2. ~sDisposed => sSocket = None
  BY <1>1 DEF S!DialFails, S!Turns, SInv, SKnown, S!TypeOK, SActive
<1>. QED
  BY <1>1, <1>2
  DEF S!DialFails, S!ScheduleReconnect, SInv, S!TypeOK, SOneChain, SKnown, SBefore, SStopped

LEMMA SDoneKeepsInv ==
  ASSUME SInv, NEW c \in SignalConns, S!Done(c)
  PROVE  SInv'
<1>1. /\ SActive = {c} /\ SActive' = {} /\ ~sTimer /\ sStarted
      /\ sConn' = [d \in SignalConns |-> "free"]
      /\ sConn' \in [SignalConns -> S!ConnState]
  BY SOneMoves DEF S!Done, S!ConnState
<1>2. ~sDisposed => sHeard' = {}
  BY <1>1 DEF S!Done, SInv, SKnown
<1>. QED
  BY <1>1, <1>2
  DEF S!Done, S!ScheduleReconnect, SInv, S!TypeOK, SOneChain, SKnown, SBefore, SStopped

LEMMA SStopKeepsInv ==
  ASSUME SInv, S!Stop
  PROVE  SInv'
BY DEF S!Stop, SInv, S!TypeOK, SOneChain, SActive, SKnown, SBefore, SStopped

LEMMA SStopCancelledKeepsInv ==
  ASSUME SInv, S!StopCancelled
  PROVE  SInv'
<1>1. sDisposed /\ sStarted
  BY DEF S!StopCancelled, SInv, SKnown, SBefore
<1>2. sConn' \in [SignalConns -> S!ConnState] /\ SActive' = SActive
  BY DEF S!StopCancelled, SInv, S!TypeOK, S!ConnState, SActive
<1>. QED
  BY <1>1, <1>2 DEF S!StopCancelled, SInv, S!TypeOK, SOneChain, SKnown, SBefore, SStopped

LEMMA SStopClosedKeepsInv ==
  ASSUME SInv, S!StopClosed
  PROVE  SInv'
<1>1. sDisposed /\ sStarted
  BY DEF S!StopClosed, SInv, SKnown, SBefore
<1>. QED
  BY <1>1 DEF S!StopClosed, SInv, S!TypeOK, SOneChain, SActive, SKnown, SBefore, SStopped

LEMMA SEndsKeepsInv ==
  ASSUME SInv, NEW c \in SignalConns, S!Ends(c)
  PROVE  SInv'
<1>1. /\ SActive = {c} /\ SActive' = {c} /\ ~sTimer /\ sStarted
      /\ sConn' = [d \in SignalConns |-> IF d = c THEN "ended" ELSE "free"]
      /\ sConn' \in [SignalConns -> S!ConnState]
  BY SOneMoves DEF S!Ends, S!ConnState
<1>2. ~sDisposed => sSocket = c
  BY DEF S!Ends, S!Turns, SInv, SKnown
<1>. QED
  BY <1>1, <1>2 DEF S!Ends, SInv, S!TypeOK, SOneChain, SKnown, SBefore, SStopped

\* Only a stopped service has a WebSocket that nobody listens to.
LEMMA SCollectedKeepsInv ==
  ASSUME SInv, NEW c \in SignalConns, S!Collected(c)
  PROVE  SInv'
<1>1. /\ SActive = {c} /\ SActive' = {} /\ ~sTimer /\ sStarted
      /\ sConn' \in [SignalConns -> S!ConnState]
  BY SOneMoves DEF S!Collected, S!ConnState
<1>2. sDisposed
  BY DEF S!Collected, S!Turns, SInv, SKnown
<1>. QED
  BY <1>1, <1>2 DEF S!Collected, SInv, S!TypeOK, SOneChain, SKnown, SBefore, SStopped

LEMMA SNextInv == SInv /\ [S!Next]_(S!vars) => SInv'
<1>. SUFFICES ASSUME SInv, [S!Next]_(S!vars) PROVE SInv'
  OBVIOUS
<1>1. CASE UNCHANGED S!vars
  BY <1>1 DEF S!vars, SInv, S!TypeOK, SOneChain, SActive, SKnown, SBefore, SStopped
<1>2. CASE S!Next
  BY <1>2, SStartKeepsInv, STimerFiresKeepsInv, SDialSucceedsKeepsInv, SDialFailsKeepsInv,
     SDoneKeepsInv, SStopKeepsInv, SStopCancelledKeepsInv, SStopClosedKeepsInv,
     SEndsKeepsInv, SCollectedKeepsInv DEF S!Next
<1>. QED
  BY <1>1, <1>2

\* The invariant holds of every behaviour of the service.
THEOREM SInvariance ==
  ASSUME None \notin SignalConns
  PROVE  S!Spec => []SInv
<1>. QED
  BY SInitInv, SNextInv, PTL DEF S!Spec

-----------------------------------------------------------------------------
(* The refinement *)

\* What the link is, from what is under way.
SLinkIs ==
  /\ \A c \in SignalConns :
       SActive = {c} => S!link = IF sConn[c] = "dialing" THEN "dialing" ELSE "up"
  /\ SActive = {} => S!link = IF sTimer THEN "waiting" ELSE "off"

LEMMA SLinkShape == S!TypeOK => SLinkIs
BY DEF S!TypeOK, S!ConnState, SLinkIs, SActive, S!link, S!SomeConn

LEMMA SLinkShapeNext == S!TypeOK' => SLinkIs'
BY DEF S!TypeOK, S!ConnState, SLinkIs, SActive, S!link, S!SomeConn

LEMMA SInitRefines == S!Init => S!L!Init
BY DEF S!Init, S!L!Init, S!wanted, S!link, S!SomeConn

\* A dial begins: the link was off or waiting.
LEMMA SDialRefines ==
  ASSUME SInv, S!Start \/ S!TimerFires
  PROVE  S!L!Want \/ S!L!Retry
<1>1. /\ ~sDisposed /\ SActive = {} /\ sSocket = None /\ S!Connect
      /\ sDisposed' = sDisposed /\ sStarted'
  <2>1. ~sDisposed /\ SActive = {} /\ S!Connect /\ sStarted'
    BY DEF S!Start, S!TimerFires, SInv, SOneChain, SBefore, SStopped
  <2>2. sDisposed' = sDisposed
    BY <2>1 DEF S!Start, S!TimerFires, SInv, S!TypeOK
  <2>. QED
    BY <2>1, <2>2, SIdleKnowsNone
<1>2. PICK c \in SignalConns :
        sConn' = [d \in SignalConns |-> IF d = c THEN "dialing" ELSE "free"]
  BY <1>1, SConnectDials
<1>3. S!link' = "dialing" /\ S!wanted'
  BY <1>1, <1>2 DEF S!link, S!SomeConn, S!wanted
<1>4. S!link = IF sTimer THEN "waiting" ELSE "off"
  BY <1>1, SLinkShape DEF SInv, SLinkIs
<1>5. CASE S!Start
  BY <1>1, <1>3, <1>4, <1>5 DEF S!Start, SInv, SBefore, S!L!Want, S!wanted
<1>6. CASE S!TimerFires
  BY <1>1, <1>3, <1>4, <1>6 DEF S!TimerFires, SInv, SBefore, S!TypeOK, S!L!Retry, S!wanted
<1>. QED
  BY <1>5, <1>6

\* A WebSocket moves on: the dial or the connection of the link ends.
LEMMA SMoveRefines ==
  ASSUME SInv, SInv', NEW c \in SignalConns,
         S!DialSucceeds(c) \/ S!DialFails(c) \/ S!Done(c) \/ S!Ends(c) \/ S!Collected(c)
  PROVE  S!L!DialSucceeds \/ S!L!DialFails \/ S!L!Lose \/ UNCHANGED S!L!vars
<1>. USE DEF S!L!vars
<1>1. SLinkIs /\ SLinkIs'
  BY SLinkShape, SLinkShapeNext DEF SInv
<1>2. S!wanted' = S!wanted
  BY DEF S!DialSucceeds, S!DialFails, S!Done, S!Ends, S!Collected, S!wanted
<1>3. CASE S!DialSucceeds(c)
  <2>1. SActive = {c} /\ SActive' = {c} /\ sConn[c] = "dialing" /\ sConn'[c] = "open"
    BY <1>3, SOneMoves DEF S!DialSucceeds, S!Turns, S!ConnState
  <2>. QED
    BY <1>1, <1>2, <2>1 DEF SLinkIs, S!L!DialSucceeds
<1>4. CASE S!DialFails(c)
  <2>1. /\ SActive = {c} /\ SActive' = {} /\ sConn[c] = "dialing" /\ ~sTimer /\ sStarted
        /\ sTimer' = ~sDisposed
    BY <1>4, SOneMoves DEF S!DialFails, S!Turns, S!ConnState, S!ScheduleReconnect
  <2>. QED
    BY <1>1, <1>2, <2>1 DEF SLinkIs, S!L!DialFails, S!L!Down, S!wanted
<1>5. CASE S!Done(c)
  <2>1. /\ SActive = {c} /\ SActive' = {} /\ sConn[c] = "ended" /\ ~sTimer /\ sStarted
        /\ sTimer' = ~sDisposed
    BY <1>5, SOneMoves DEF S!Done, S!Turns, S!ConnState, S!ScheduleReconnect
  <2>. QED
    BY <1>1, <1>2, <2>1 DEF SLinkIs, S!L!Lose, S!L!Down, S!wanted
<1>6. CASE S!Ends(c)
  <2>1. SActive = {c} /\ SActive' = {c} /\ sConn[c] = "open" /\ sConn'[c] = "ended"
    BY <1>6, SOneMoves DEF S!Ends, S!Turns, S!ConnState
  <2>. QED
    BY <1>1, <1>2, <2>1 DEF SLinkIs
<1>7. CASE S!Collected(c)
  <2>1. /\ SActive = {c} /\ SActive' = {} /\ sConn[c] = "ended" /\ ~sTimer
        /\ sTimer' = sTimer /\ c \notin sHeard
    BY <1>7, SOneMoves DEF S!Collected, S!Turns, S!ConnState
  <2>2. ~S!wanted
    BY <2>1 DEF SInv, SKnown, S!wanted
  <2>. QED
    BY <1>1, <1>2, <2>1, <2>2 DEF SLinkIs, S!L!Lose, S!L!Down
<1>. QED
  BY <1>3, <1>4, <1>5, <1>6, <1>7

\* stop() takes the timer and lets the rest run out.
LEMMA SStopRefines ==
  ASSUME SInv, SInv', S!Stop \/ S!StopCancelled \/ S!StopClosed
  PROVE  S!L!Unwant \/ UNCHANGED S!L!vars
<1>1. CASE S!Stop
  <2>1. /\ S!wanted /\ ~S!wanted' /\ SActive' = SActive /\ sConn' = sConn /\ ~sTimer'
    BY <1>1 DEF S!Stop, S!wanted, SActive
  <2>2. CASE SActive = {}
    BY <2>1, <2>2, SLinkShape, SLinkShapeNext DEF SInv, SLinkIs, S!L!Unwant, S!wanted, S!TypeOK
  <2>3. CASE SActive # {}
    <3>1. PICK c \in SignalConns : SActive = {c}
      BY <2>3 DEF SInv, SOneChain, SActive
    <3>. QED
      BY <2>1, <3>1, SLinkShape, SLinkShapeNext
      DEF SInv, SLinkIs, S!L!Unwant, S!wanted, S!TypeOK
  <2>. QED
    BY <2>2, <2>3
<1>2. CASE S!StopCancelled
  <2>1. \A c \in SignalConns :
          /\ sConn'[c] = "dialing" <=> sConn[c] = "dialing"
          /\ sConn'[c] \in {"open", "ended"} <=> sConn[c] \in {"open", "ended"}
    BY <1>2 DEF S!StopCancelled, SInv, S!TypeOK
  <2>. QED
    BY <1>2, <2>1 DEF S!StopCancelled, S!wanted, S!link, S!SomeConn, S!L!vars
<1>3. CASE S!StopClosed
  BY <1>3 DEF S!StopClosed, S!wanted, S!link, S!SomeConn, S!L!vars
<1>. QED
  BY <1>1, <1>2, <1>3

LEMMA SNextRefines ==
  ASSUME SInv, SInv', [S!Next]_(S!vars)
  PROVE  [S!L!Next]_(S!L!vars)
<1>1. CASE UNCHANGED S!vars
  BY <1>1 DEF S!vars, S!L!vars, S!wanted, S!link, S!SomeConn
<1>2. CASE S!Next
  BY <1>2, SDialRefines, SMoveRefines, SStopRefines DEF S!Next, S!L!Next
<1>. QED
  BY <1>1, <1>2

\* The signaling service implements the link: one WebSocket at a time, another
\* attempt after every failure and loss, none after stop.
THEOREM SImplementsLink ==
  ASSUME None \notin SignalConns
  PROVE  S!Spec => S!L!Spec
<1>1. SInv /\ SInv' /\ [S!Next]_(S!vars) => [S!L!Next]_(S!L!vars)
  BY SNextRefines
<1>. QED
  BY SInitRefines, <1>1, SInvariance, PTL DEF S!Spec, S!L!Spec

-----------------------------------------------------------------------------
(* The reporter.  What differs is the delayed call: stop cannot take it    *)
(* back, so it may be pending while the service is stopped, and then does  *)
(* nothing; that there is never a second one has to be proved, and makes   *)
(* the link's waiting a matter of one call.                                *)

RActive == {c \in ReportConns : rConn[c] # "free"}

\* One WebSocket at a time, and none while a call is delayed.
ROneChain ==
  /\ \A c, d \in RActive : c = d
  /\ rDelayed # 0 => RActive = {}

\* What a reporter that has not been stopped knows of its WebSockets.
RKnown ==
  ~rDisposed =>
    /\ rHeard = IF rSocket = None THEN {} ELSE {rSocket}
    /\ rSocket # None => rConn[rSocket] \in {"open", "ended"}
    /\ \A c \in ReportConns : rConn[c] \in {"open", "ended"} => rSocket = c
    /\ rStopping = "no"
    /\ rStartup # "no" => rDelayed # 0 \/ RActive # {}

RBefore ==
  rStartup = "no" => ~rDisposed /\ rDelayed = 0 /\ RActive = {}

RInv == None \notin ReportConns /\ R!TypeOK /\ ROneChain /\ RKnown /\ RBefore

-----------------------------------------------------------------------------
LEMMA RInitInv == None \notin ReportConns /\ R!Init => RInv
BY DEF R!Init, RInv, R!TypeOK, R!ConnState, ROneChain, RActive, RKnown, RBefore

\* _connect, called with nothing under way, begins a dial.
LEMMA RConnectDials ==
  ASSUME RInv, R!Connect, ~rDisposed, rSocket = None, RActive = {}
  PROVE  \E c \in ReportConns :
           rConn' = [d \in ReportConns |-> IF d = c THEN "dialing" ELSE "free"]
BY DEF RInv, R!TypeOK, R!Connect, R!Turns, RActive

\* A reporter that is not stopped and has no WebSocket under way knows of none.
LEMMA RIdleKnowsNone ==
  ASSUME RInv, ~rDisposed, RActive = {}
  PROVE  rSocket = None
BY DEF RInv, R!TypeOK, RKnown, RActive

LEMMA RStartKeepsInv ==
  ASSUME RInv, R!Start
  PROVE  RInv'
<1>1. ~rDisposed /\ RActive = {} /\ rDelayed = 0 /\ rSocket = None
  BY RIdleKnowsNone DEF R!Start, RInv, RBefore
<1>2. PICK c \in ReportConns :
        rConn' = [d \in ReportConns |-> IF d = c THEN "dialing" ELSE "free"]
  BY <1>1, RConnectDials DEF R!Start
<1>3. RActive' = {c}
  BY <1>2 DEF RActive
<1>. QED
  BY <1>1, <1>2, <1>3 DEF R!Start, RInv, R!TypeOK, R!ConnState, ROneChain, RKnown, RBefore

LEMMA RDelayEndsKeepsInv ==
  ASSUME RInv, R!DelayEnds
  PROVE  RInv'
<1>1. RActive = {} /\ rStartup # "no" /\ rDelayed = 1 /\ rDelayed' = 0
  BY DEF R!DelayEnds, RInv, R!TypeOK, ROneChain, RBefore
<1>2. rStartup' \in {"dial", "delay", "done"} /\ rTimer' \in BOOLEAN
  BY <1>1 DEF R!DelayEnds, R!StartReturns, RInv, R!TypeOK
<1>3. CASE rDisposed
  <2>1. rConn' = rConn /\ RActive' = RActive
    BY <1>3 DEF R!DelayEnds, R!Connect, RActive
  <2>. QED
    BY <1>1, <1>2, <1>3, <2>1 DEF R!DelayEnds, RInv, R!TypeOK, ROneChain, RKnown, RBefore
<1>4. CASE ~rDisposed
  <2>1. rSocket = None
    BY <1>1, <1>4, RIdleKnowsNone
  <2>2. PICK c \in ReportConns :
          rConn' = [d \in ReportConns |-> IF d = c THEN "dialing" ELSE "free"]
    BY <1>1, <1>4, <2>1, RConnectDials DEF R!DelayEnds
  <2>3. RActive' = {c}
    BY <2>2 DEF RActive
  <2>. QED
    BY <1>1, <1>2, <1>4, <2>1, <2>2, <2>3
    DEF R!DelayEnds, RInv, R!TypeOK, R!ConnState, ROneChain, RKnown, RBefore
<1>. QED
  BY <1>3, <1>4

\* A step of one WebSocket that is under way leaves it the only one.
LEMMA ROneMoves ==
  ASSUME RInv, NEW c \in ReportConns, NEW from \in R!ConnState \ {"free"}, NEW to \in R!ConnState,
         R!Turns(c, from, to)
  PROVE  /\ RActive = {c} /\ rDelayed = 0 /\ rStartup # "no"
         /\ rConn' = [d \in ReportConns |-> IF d = c THEN to ELSE "free"]
         /\ rConn' \in [ReportConns -> R!ConnState]
         /\ RActive' = IF to = "free" THEN {} ELSE {c}
<1>1. rConn \in [ReportConns -> R!ConnState] /\ rConn[c] = from /\ from # "free"
  BY DEF RInv, R!TypeOK, R!Turns
<1>2. RActive = {c}
  BY <1>1 DEF RInv, ROneChain, RActive
<1>3. rDelayed = 0 /\ rStartup # "no"
  BY <1>2 DEF RInv, ROneChain, RBefore, R!TypeOK
<1>4. rConn' = [d \in ReportConns |-> IF d = c THEN to ELSE "free"]
  <2>1. \A d \in ReportConns : d # c => rConn[d] = "free"
    BY <1>2 DEF RActive
  <2>. QED
    BY <1>1, <2>1 DEF R!Turns
<1>5. rConn' \in [ReportConns -> R!ConnState]
  BY <1>4 DEF R!ConnState
<1>6. RActive' = IF to = "free" THEN {} ELSE {c}
  BY <1>4 DEF RActive
<1>. QED
  BY <1>2, <1>3, <1>4, <1>5, <1>6

\* The end of a dial takes start() on, if it is start() that waits for it.
LEMMA RStartupGoesOn ==
  ASSUME RInv, rStartup # "no", NEW c \in ReportConns, R!DialSucceeds(c) \/ R!DialFails(c)
  PROVE  rStartup' \in {"dial", "delay", "done"} /\ rTimer' \in BOOLEAN
<1>1. rStartup \in {"dial", "delay", "done"} /\ rTimer \in BOOLEAN
  BY DEF RInv, R!TypeOK
<1>2. CASE rStartup = "dial" /\ rDisposed
  BY <1>1, <1>2 DEF R!DialSucceeds, R!DialFails, R!StartReturns
<1>3. CASE rStartup = "dial" /\ ~rDisposed
  BY <1>1, <1>3 DEF R!DialSucceeds, R!DialFails, R!StartReturns
<1>4. CASE rStartup # "dial"
  BY <1>1, <1>4 DEF R!DialSucceeds, R!DialFails
<1>. QED
  BY <1>2, <1>3, <1>4

LEMMA RDialSucceedsKeepsInv ==
  ASSUME RInv, NEW c \in ReportConns, R!DialSucceeds(c)
  PROVE  RInv'
<1>1. /\ RActive = {c} /\ RActive' = {c} /\ rDelayed = 0 /\ rStartup # "no"
      /\ rConn' = [d \in ReportConns |-> IF d = c THEN "open" ELSE "free"]
      /\ rConn' \in [ReportConns -> R!ConnState]
  BY ROneMoves DEF R!DialSucceeds, R!ConnState
<1>2. ~rDisposed => rHeard = {}
  <2>1. rConn[c] = "dialing"
    BY DEF R!DialSucceeds, R!Turns
  <2>2. ASSUME ~rDisposed, rSocket # None
        PROVE  FALSE
    <3>1. rConn[rSocket] \in {"open", "ended"} /\ rSocket \in ReportConns
      BY <2>2 DEF RInv, RKnown, R!TypeOK
    <3>. QED
      BY <3>1, <2>1, <1>1 DEF RActive
  <2>. QED
    BY <2>2 DEF RInv, RKnown
<1>3. rStartup' \in {"dial", "delay", "done"} /\ rTimer' \in BOOLEAN
  BY <1>1, RStartupGoesOn
<1>. QED
  BY <1>1, <1>2, <1>3
  DEF R!DialSucceeds, RInv, R!TypeOK, ROneChain, RKnown, RBefore

LEMMA RDialFailsKeepsInv ==
  ASSUME RInv, NEW c \in ReportConns, R!DialFails(c)
  PROVE  RInv'
<1>1. /\ RActive = {c} /\ RActive' = {} /\ rDelayed = 0 /\ rStartup # "no"
      /\ rConn' = [d \in ReportConns |-> "free"]
      /\ rConn' \in [ReportConns -> R!ConnState]
  BY ROneMoves DEF R!DialFails, R!ConnState
<1>2. ~rDisposed => rSocket = None
  BY <1>1 DEF R!DialFails, R!Turns, RInv, RKnown, R!TypeOK, RActive
<1>3. rStartup' \in {"dial", "delay", "done"} /\ rTimer' \in BOOLEAN
  BY <1>1, RStartupGoesOn
<1>. QED
  BY <1>1, <1>2, <1>3
  DEF R!DialFails, R!Delay, RInv, R!TypeOK, ROneChain, RKnown, RBefore

LEMMA RDoneKeepsInv ==
  ASSUME RInv, NEW c \in ReportConns, R!Done(c)
  PROVE  RInv'
<1>1. /\ RActive = {c} /\ RActive' = {} /\ rDelayed = 0 /\ rStartup # "no"
      /\ rConn' = [d \in ReportConns |-> "free"]
      /\ rConn' \in [ReportConns -> R!ConnState]
  BY ROneMoves DEF R!Done, R!ConnState
<1>2. ~rDisposed => rHeard' = {}
  BY <1>1 DEF R!Done, RInv, RKnown
<1>. QED
  BY <1>1, <1>2
  DEF R!Done, R!Delay, RInv, R!TypeOK, ROneChain, RKnown, RBefore

LEMMA RStopKeepsInv ==
  ASSUME RInv, R!Stop
  PROVE  RInv'
BY DEF R!Stop, RInv, R!TypeOK, ROneChain, RActive, RKnown, RBefore

LEMMA RStopCancelledKeepsInv ==
  ASSUME RInv, R!StopCancelled
  PROVE  RInv'
<1>1. rDisposed /\ rStartup # "no"
  BY DEF R!StopCancelled, RInv, RKnown, RBefore
<1>2. rConn' \in [ReportConns -> R!ConnState] /\ RActive' = RActive
  BY DEF R!StopCancelled, RInv, R!TypeOK, R!ConnState, RActive
<1>. QED
  BY <1>1, <1>2 DEF R!StopCancelled, RInv, R!TypeOK, ROneChain, RKnown, RBefore

LEMMA RStopClosedKeepsInv ==
  ASSUME RInv, R!StopClosed
  PROVE  RInv'
<1>1. rDisposed /\ rStartup # "no"
  BY DEF R!StopClosed, RInv, RKnown, RBefore
<1>. QED
  BY <1>1 DEF R!StopClosed, RInv, R!TypeOK, ROneChain, RActive, RKnown, RBefore

LEMMA REndsKeepsInv ==
  ASSUME RInv, NEW c \in ReportConns, R!Ends(c)
  PROVE  RInv'
<1>1. /\ RActive = {c} /\ RActive' = {c} /\ rDelayed = 0 /\ rStartup # "no"
      /\ rConn' = [d \in ReportConns |-> IF d = c THEN "ended" ELSE "free"]
      /\ rConn' \in [ReportConns -> R!ConnState]
  BY ROneMoves DEF R!Ends, R!ConnState
<1>2. ~rDisposed => rSocket = c
  BY DEF R!Ends, R!Turns, RInv, RKnown
<1>. QED
  BY <1>1, <1>2 DEF R!Ends, RInv, R!TypeOK, ROneChain, RKnown, RBefore

\* Only a stopped reporter has a WebSocket that nobody listens to.
LEMMA RCollectedKeepsInv ==
  ASSUME RInv, NEW c \in ReportConns, R!Collected(c)
  PROVE  RInv'
<1>1. /\ RActive = {c} /\ RActive' = {} /\ rDelayed = 0 /\ rStartup # "no"
      /\ rConn' \in [ReportConns -> R!ConnState]
  BY ROneMoves DEF R!Collected, R!ConnState
<1>2. rDisposed
  BY DEF R!Collected, R!Turns, RInv, RKnown
<1>. QED
  BY <1>1, <1>2 DEF R!Collected, RInv, R!TypeOK, ROneChain, RKnown, RBefore

LEMMA RNextInv == RInv /\ [R!Next]_(R!vars) => RInv'
<1>. SUFFICES ASSUME RInv, [R!Next]_(R!vars) PROVE RInv'
  OBVIOUS
<1>1. CASE UNCHANGED R!vars
  BY <1>1 DEF R!vars, RInv, R!TypeOK, ROneChain, RActive, RKnown, RBefore
<1>2. CASE R!Next
  BY <1>2, RStartKeepsInv, RDelayEndsKeepsInv, RDialSucceedsKeepsInv, RDialFailsKeepsInv,
     RDoneKeepsInv, RStopKeepsInv, RStopCancelledKeepsInv, RStopClosedKeepsInv,
     REndsKeepsInv, RCollectedKeepsInv DEF R!Next
<1>. QED
  BY <1>1, <1>2

\* The invariant holds of every behaviour of the reporter.
THEOREM RInvariance ==
  ASSUME None \notin ReportConns
  PROVE  R!Spec => []RInv
<1>. QED
  BY RInitInv, RNextInv, PTL DEF R!Spec

-----------------------------------------------------------------------------
(* The refinement *)

\* What the link is, from what is under way.
RLinkIs ==
  /\ \A c \in ReportConns :
       RActive = {c} => R!link = IF rConn[c] = "dialing" THEN "dialing" ELSE "up"
  /\ RActive = {} => R!link = IF rDelayed # 0 /\ ~rDisposed THEN "waiting" ELSE "off"

LEMMA RLinkShape == R!TypeOK => RLinkIs
BY DEF R!TypeOK, R!ConnState, RLinkIs, RActive, R!link, R!SomeConn

LEMMA RLinkShapeNext == R!TypeOK' => RLinkIs'
BY DEF R!TypeOK, R!ConnState, RLinkIs, RActive, R!link, R!SomeConn

LEMMA RInitRefines == R!Init => R!L!Init
BY DEF R!Init, R!L!Init, R!wanted, R!link, R!SomeConn

\* A dial begins: the link was off or waiting.  A delayed call that comes too
\* late changes nothing.
LEMMA RDialRefines ==
  ASSUME RInv, RInv', R!Start \/ R!DelayEnds
  PROVE  R!L!Want \/ R!L!Retry \/ UNCHANGED R!L!vars
<1>1. RActive = {} /\ rDisposed' = rDisposed /\ rStartup' # "no"
  BY DEF R!Start, R!DelayEnds, R!StartReturns, RInv, R!TypeOK, ROneChain, RBefore
<1>2. R!link = IF rDelayed # 0 /\ ~rDisposed THEN "waiting" ELSE "off"
  BY <1>1, RLinkShape DEF RInv, RLinkIs
<1>3. CASE ~rDisposed
  <2>1. PICK c \in ReportConns :
          rConn' = [d \in ReportConns |-> IF d = c THEN "dialing" ELSE "free"]
    BY <1>1, <1>3, RIdleKnowsNone, RConnectDials DEF R!Start, R!DelayEnds
  <2>2. R!link' = "dialing" /\ R!wanted'
    BY <1>1, <1>3, <2>1 DEF R!link, R!SomeConn, R!wanted
  <2>3. CASE R!Start
    BY <1>2, <1>3, <2>2, <2>3 DEF R!Start, RInv, RBefore, R!L!Want, R!wanted
  <2>4. CASE R!DelayEnds
    BY <1>2, <1>3, <2>2, <2>4 DEF R!DelayEnds, RInv, RBefore, R!TypeOK, R!L!Retry, R!wanted
  <2>. QED
    BY <2>3, <2>4
<1>4. CASE rDisposed
  <2>1. R!DelayEnds /\ RActive' = RActive
    BY <1>4 DEF R!Start, R!DelayEnds, R!Connect, RActive, RInv, RBefore
  <2>2. R!link' = "off"
    BY <1>1, <1>4, <2>1, RLinkShapeNext DEF RInv, RLinkIs
  <2>. QED
    BY <1>1, <1>2, <1>4, <2>2 DEF R!wanted, R!L!vars
<1>. QED
  BY <1>3, <1>4

\* A WebSocket moves on: the dial or the connection of the link ends.
LEMMA RMoveRefines ==
  ASSUME RInv, RInv', NEW c \in ReportConns,
         R!DialSucceeds(c) \/ R!DialFails(c) \/ R!Done(c) \/ R!Ends(c) \/ R!Collected(c)
  PROVE  R!L!DialSucceeds \/ R!L!DialFails \/ R!L!Lose \/ UNCHANGED R!L!vars
<1>. USE DEF R!L!vars
<1>1. RLinkIs /\ RLinkIs'
  BY RLinkShape, RLinkShapeNext DEF RInv
<1>2. R!wanted' = R!wanted
  <2>1. rStartup # "no"
    BY ROneMoves
    DEF R!DialSucceeds, R!DialFails, R!Done, R!Ends, R!Collected, R!Turns, R!ConnState
  <2>2. rStartup' # "no"
    BY <2>1, RStartupGoesOn DEF R!Done, R!Ends, R!Collected
  <2>. QED
    BY <2>1, <2>2 DEF R!DialSucceeds, R!DialFails, R!Done, R!Ends, R!Collected, R!wanted
<1>3. CASE R!DialSucceeds(c)
  <2>1. RActive = {c} /\ RActive' = {c} /\ rConn[c] = "dialing" /\ rConn'[c] = "open"
    BY <1>3, ROneMoves DEF R!DialSucceeds, R!Turns, R!ConnState
  <2>. QED
    BY <1>1, <1>2, <2>1 DEF RLinkIs, R!L!DialSucceeds
<1>4. CASE R!DialFails(c)
  <2>1. RActive = {c} /\ RActive' = {} /\ rConn[c] = "dialing" /\ rDelayed = 0 /\ rStartup # "no"
    BY <1>4, ROneMoves DEF R!DialFails, R!Turns, R!ConnState
  <2>2. (rDelayed' # 0 <=> ~rDisposed) /\ rDisposed' = rDisposed
    BY <1>4, <2>1 DEF R!DialFails, R!Delay
  <2>. QED
    BY <1>1, <1>2, <2>1, <2>2 DEF RLinkIs, R!L!DialFails, R!L!Down, R!wanted
<1>5. CASE R!Done(c)
  <2>1. RActive = {c} /\ RActive' = {} /\ rConn[c] = "ended" /\ rDelayed = 0 /\ rStartup # "no"
    BY <1>5, ROneMoves DEF R!Done, R!Turns, R!ConnState
  <2>2. (rDelayed' # 0 <=> ~rDisposed) /\ rDisposed' = rDisposed
    BY <1>5, <2>1 DEF R!Done, R!Delay
  <2>. QED
    BY <1>1, <1>2, <2>1, <2>2 DEF RLinkIs, R!L!Lose, R!L!Down, R!wanted
<1>6. CASE R!Ends(c)
  <2>1. RActive = {c} /\ RActive' = {c} /\ rConn[c] = "open" /\ rConn'[c] = "ended"
    BY <1>6, ROneMoves DEF R!Ends, R!Turns, R!ConnState
  <2>. QED
    BY <1>1, <1>2, <2>1 DEF RLinkIs
<1>7. CASE R!Collected(c)
  <2>1. /\ RActive = {c} /\ RActive' = {} /\ rConn[c] = "ended" /\ rDelayed = 0
        /\ rDelayed' = rDelayed /\ c \notin rHeard
    BY <1>7, ROneMoves DEF R!Collected, R!Turns, R!ConnState
  <2>2. ~R!wanted
    BY <2>1 DEF RInv, RKnown, R!wanted
  <2>. QED
    BY <1>1, <1>2, <2>1, <2>2 DEF RLinkIs, R!L!Lose, R!L!Down
<1>. QED
  BY <1>3, <1>4, <1>5, <1>6, <1>7

\* stop() lets the rest run out.
LEMMA RStopRefines ==
  ASSUME RInv, RInv', R!Stop \/ R!StopCancelled \/ R!StopClosed
  PROVE  R!L!Unwant \/ UNCHANGED R!L!vars
<1>1. CASE R!Stop
  <2>1. /\ R!wanted /\ ~R!wanted' /\ RActive' = RActive /\ rConn' = rConn /\ rDisposed'
    BY <1>1 DEF R!Stop, R!wanted, RActive
  <2>2. CASE RActive = {}
    BY <2>1, <2>2, RLinkShape, RLinkShapeNext DEF RInv, RLinkIs, R!L!Unwant, R!wanted, R!TypeOK
  <2>3. CASE RActive # {}
    <3>1. PICK c \in ReportConns : RActive = {c}
      BY <2>3 DEF RInv, ROneChain, RActive
    <3>. QED
      BY <2>1, <3>1, RLinkShape, RLinkShapeNext
      DEF RInv, RLinkIs, R!L!Unwant, R!wanted, R!TypeOK
  <2>. QED
    BY <2>2, <2>3
<1>2. CASE R!StopCancelled
  <2>1. \A c \in ReportConns :
          /\ rConn'[c] = "dialing" <=> rConn[c] = "dialing"
          /\ rConn'[c] \in {"open", "ended"} <=> rConn[c] \in {"open", "ended"}
    BY <1>2 DEF R!StopCancelled, RInv, R!TypeOK
  <2>. QED
    BY <1>2, <2>1 DEF R!StopCancelled, R!wanted, R!link, R!SomeConn, R!L!vars
<1>3. CASE R!StopClosed
  BY <1>3 DEF R!StopClosed, R!wanted, R!link, R!SomeConn, R!L!vars
<1>. QED
  BY <1>1, <1>2, <1>3

LEMMA RNextRefines ==
  ASSUME RInv, RInv', [R!Next]_(R!vars)
  PROVE  [R!L!Next]_(R!L!vars)
<1>1. CASE UNCHANGED R!vars
  BY <1>1 DEF R!vars, R!L!vars, R!wanted, R!link, R!SomeConn
<1>2. CASE R!Next
  BY <1>2, RDialRefines, RMoveRefines, RStopRefines DEF R!Next, R!L!Next
<1>. QED
  BY <1>1, <1>2

\* The reporter implements the link: one WebSocket at a time, another
\* attempt after every failure and loss, none after stop.
THEOREM RImplementsLink ==
  ASSUME None \notin ReportConns
  PROVE  R!Spec => R!L!Spec
<1>1. RInv /\ RInv' /\ [R!Next]_(R!vars) => [R!L!Next]_(R!L!vars)
  BY RNextRefines
<1>. QED
  BY RInitRefines, <1>1, RInvariance, PTL DEF R!Spec, R!L!Spec

-----------------------------------------------------------------------------
(* The daemon *)

LEMMA StepOfSignaling == [Next]_vars => [S!Next]_(S!vars)
<1>. SUFFICES ASSUME [Next]_vars PROVE S!Next \/ UNCHANGED signaling
  BY DEF signaling, S!vars
<1>1. CASE DialTest \/ StartReporter \/ StopReporter
  BY <1>1 DEF DialTest, StartReporter, StopReporter
<1>2. CASE StartSignaling \/ StopSignaling
  BY <1>2 DEF StartSignaling, StopSignaling, S!Next
<1>3. CASE SignalingOpens \/ SignalingGoesOn \/ SignalingFails
  BY <1>3 DEF SignalingOpens, SignalingGoesOn, SignalingFails, OfSignaling, S!Next
<1>4. CASE ReporterOpens \/ ReporterGoesOn \/ ReporterFails
  BY <1>4 DEF ReporterOpens, ReporterGoesOn, ReporterFails, OfReporter
<1>5. CASE Restarts \/ \E c \in Conns : Registers(c) \/ Unregisters(c)
  BY <1>5 DEF Restarts, Registers, Unregisters
<1>6. CASE UNCHANGED vars
  BY <1>6 DEF vars
<1>. QED
  BY <1>1, <1>2, <1>3, <1>4, <1>5, <1>6 DEF Next

LEMMA StepOfReporter == [Next]_vars => [R!Next]_(R!vars)
<1>. SUFFICES ASSUME [Next]_vars PROVE R!Next \/ UNCHANGED reporter
  BY DEF reporter, R!vars
<1>1. CASE DialTest \/ StartSignaling \/ StopSignaling
  BY <1>1 DEF DialTest, StartSignaling, StopSignaling
<1>2. CASE StartReporter \/ StopReporter
  BY <1>2 DEF StartReporter, StopReporter, R!Next
<1>3. CASE ReporterOpens \/ ReporterGoesOn \/ ReporterFails
  BY <1>3 DEF ReporterOpens, ReporterGoesOn, ReporterFails, OfReporter, R!Next
<1>4. CASE SignalingOpens \/ SignalingGoesOn \/ SignalingFails
  BY <1>4 DEF SignalingOpens, SignalingGoesOn, SignalingFails, OfSignaling
<1>5. CASE Restarts \/ \E c \in Conns : Registers(c) \/ Unregisters(c)
  BY <1>5 DEF Restarts, Registers, Unregisters
<1>6. CASE UNCHANGED vars
  BY <1>6 DEF vars
<1>. QED
  BY <1>1, <1>2, <1>3, <1>4, <1>5, <1>6 DEF Next

\* The signaling service of a daemon is a link, whatever the relay and the
\* reporter do beside it.
THEOREM SignalingImplementsLink == Spec => SignalingIsALink
<1>1. None \notin SignalConns
  BY HostDaemonAssumption
<1>2. S!Spec => S!L!Spec
  BY <1>1, SImplementsLink
<1>3. Init => S!Init
  BY DEF Init
<1>. QED
  BY <1>2, <1>3, StepOfSignaling, PTL DEF Spec, S!Spec, SignalingIsALink

\* The reporter of a daemon is a link as well.
THEOREM ReporterImplementsLink == Spec => ReporterIsALink
<1>1. None \notin ReportConns
  BY HostDaemonAssumption
<1>2. R!Spec => R!L!Spec
  BY <1>1, RImplementsLink
<1>3. Init => R!Init
  BY DEF Init
<1>. QED
  BY <1>2, <1>3, StepOfReporter, PTL DEF Spec, R!Spec, ReporterIsALink

\* Both are, side by side.
THEOREM ServicesImplementLinks == Spec => ServicesAreLinks
<1>. QED
  BY SignalingImplementsLink, ReporterImplementsLink, PTL DEF ServicesAreLinks

-----------------------------------------------------------------------------
(* Type correctness: the services' comes from their own invariants. *)

Shared ==
  /\ step \in {"boot", "testing", "reporting", "running", "stopReporter", "stopSignaling"}
  /\ test \in {"free", "dialing", "done"}
  /\ Relay!TypeOK

LEMMA SharedStep == Shared /\ [Next]_vars => Shared'
<1>. SUFFICES ASSUME Shared, [Next]_vars PROVE Shared'
  OBVIOUS
<1>1. CASE DialTest \/ StartReporter \/ StartSignaling \/ StopReporter \/ StopSignaling
  BY <1>1 DEF DialTest, StartReporter, StartSignaling, StopReporter, StopSignaling, Steps,
     Shared, Relay!TypeOK, relay
<1>2. CASE SignalingOpens \/ SignalingGoesOn \/ SignalingFails
  BY <1>2 DEF SignalingOpens, SignalingGoesOn, SignalingFails, OfSignaling, daemon, relay,
     Shared, Relay!TypeOK
<1>3. CASE ReporterOpens \/ ReporterGoesOn \/ ReporterFails
  BY <1>3 DEF ReporterOpens, ReporterGoesOn, ReporterFails, OfReporter, daemon, relay,
     Shared, Relay!TypeOK
<1>4. ASSUME NEW c \in Conns, Registers(c) \/ Unregisters(c) PROVE Shared'
  BY <1>4 DEF Registers, Unregisters, Relay!Register, Relay!Unregister, daemon,
     Shared, Relay!TypeOK
<1>5. CASE Restarts
  BY <1>5 DEF Restarts, Relay!Restart, daemon, Shared, Relay!TypeOK
<1>6. CASE UNCHANGED vars
  BY <1>6 DEF vars, daemon, relay, Shared, Relay!TypeOK
<1>. QED
  BY <1>1, <1>2, <1>3, <1>4, <1>5, <1>6 DEF Next

\* A daemon's services, their WebSockets and the relay's registration of them
\* stay well formed, for any number of WebSockets.
THEOREM TypeCorrect == Spec => []TypeOK
<1>1. None \notin SignalConns /\ None \notin ReportConns
  BY HostDaemonAssumption
<1>2. S!Spec => []SInv
  BY <1>1, SInvariance
<1>3. R!Spec => []RInv
  BY <1>1, RInvariance
<1>4. SInv => S!TypeOK
  BY DEF SInv
<1>5. RInv => R!TypeOK
  BY DEF RInv
<1>6. Init => S!Init /\ R!Init /\ Shared
  BY DEF Init, Shared, Relay!Init, Relay!TypeOK
<1>7. Shared /\ S!TypeOK /\ R!TypeOK => TypeOK
  BY DEF Shared, TypeOK
<1>. QED
  BY <1>2, <1>3, <1>4, <1>5, <1>6, <1>7, StepOfSignaling, StepOfReporter, SharedStep, PTL
  DEF Spec, S!Spec, R!Spec

=============================================================================
