------------------------ MODULE CodexProvider_proofs ------------------------
(***************************************************************************)
(* Theorems about CodexProvider for any number of prompts, app-servers and *)
(* approvals.  The inductive invariant follows a turn that the provider    *)
(* has lost sight of: a turn that runs without being the active one shares *)
(* its app-server and thread with a turn whose caller was told that it     *)
(* failed, and only such a turn can end, or write into, another's answer.  *)
(***************************************************************************)
EXTENDS CodexProvider, SequenceTheorems, TLAPS

(* A turn of the same app-server and thread was abandoned.                 *)
Tainted(p) == \E f \in Prompt : home[f] = home[p] /\ Abandoned(f)

Tracked ==
  /\ booting => child # NoChild
  /\ child # NoChild => proc[child] # "none"
  /\ Live \subseteq {child} \union lost

(* Where a prompt is against the handles of the provider: only turns of    *)
(* the tracked app-server run, and the prompt that waits for turn/start or *)
(* reads its queue is the active one.                                      *)
PromptInv(p) ==
  /\ pc[p] = "booting" => booting
  /\ pc[p] = "thread" => child # NoChild /\ ~booting
  /\ pc[p] \in {"starting", "reading"} <=> p = active
  /\ pc[p] \in {"idle", "booting", "thread", "exec", "execAnswered", "execFailed"} =>
       turn[p] = "none"
  /\ pc[p] \in {"starting", "reading", "answered"} => turn[p] # "none"
  /\ turn[p] = "none" => got[p] = {}
  /\ turn[p] = "running" \/ p = active =>
       child # NoChild /\ ~booting /\ home[p].child = child

(* What a prompt is told, and by whom.                                     *)
TextInv(p) ==
  /\ turn[p] = "running" => p = active \/ Tainted(p)
  /\ got[p] \subseteq {p} \/ Tainted(p)
  /\ pc[p] = "answered" \/ (p = active /\ queue = "closed") => turn[p] = "ended" \/ Tainted(p)

(* An app-server that has not been spawned has asked nothing, and of the   *)
(* tracked one only the request in the registry is unanswered.             *)
Requests ==
  /\ \A c \in Child : proc[c] = "none" => asked[c] = <<>>
  /\ child # NoChild => \A i \in Unanswered(child) : slot = <<child, i>>
  /\ YesReachesItsRequest

IInv ==
  /\ TypeOK
  /\ Tracked
  /\ \A p \in Prompt : PromptInv(p) /\ TextInv(p)
  /\ Requests

LEMMA NoneIsNoPrompt == None \notin Prompt /\ NoChild \notin Child
BY BoundsAssumption DEF None, NoChild, Prompt, Child

-----------------------------------------------------------------------------

LEMMA InitIInv == Init => IInv
<1> SUFFICES ASSUME Init PROVE IInv
  OBVIOUS
<1> USE NoneIsNoPrompt
<1>1. TypeOK
  <2>1. asked \in [Child -> Seq([turn : Prompt, answer : {"none", "accept", "decline"}])]
    BY EmptySeq DEF Init
  <2> QED
    BY <2>1 DEF Init, TypeOK
<1>2. Tracked
  BY DEF Init, Tracked, Live
<1>3. ASSUME NEW p \in Prompt PROVE PromptInv(p) /\ TextInv(p)
  BY <1>3 DEF Init, PromptInv, TextInv
<1>4. Requests
  BY DEF Init, Requests, YesReachesItsRequest
<1> QED
  BY <1>1, <1>2, <1>3, <1>4 DEF IInv

-----------------------------------------------------------------------------
(* What every step keeps.                                                  *)

(* The turn of a prompt is started once, and a failure is final.           *)
LEMMA StepOfPrompt ==
  ASSUME IInv, Next, NEW p \in Prompt
  PROVE  /\ turn[p] # "none" => turn'[p] # "none" /\ home'[p] = home[p]
         /\ pc[p] = "failed" => pc'[p] = "failed"
<1> USE NoneIsNoPrompt
<1>0. TypeOK /\ PromptInv(p)
  BY DEF IInv
<1>1. CASE Booted \/ BootFails
  BY <1>0, <1>1 DEF Booted, BootFails, Rejected, At, TypeOK
<1>2. ASSUME NEW q \in Prompt, NEW t, StartTurn(q, t), pc[q] \in {"idle", "thread"}
      PROVE  /\ turn[p] # "none" => turn'[p] # "none" /\ home'[p] = home[p]
             /\ pc[p] = "failed" => pc'[p] = "failed"
  BY <1>0, <1>2 DEF StartTurn, TypeOK, PromptInv
<1>3. ASSUME NEW q \in Prompt, Send(q)
      PROVE  /\ turn[p] # "none" => turn'[p] # "none" /\ home'[p] = home[p]
             /\ pc[p] = "failed" => pc'[p] = "failed"
  BY <1>0, <1>2, <1>3 DEF Send, Boot, TypeOK
<1>4. ASSUME NEW q \in Prompt, TurnStarted(q) \/ RequestFails(q) \/ \E ok \in BOOLEAN : ExecEnds(q, ok)
      PROVE  /\ turn[p] # "none" => turn'[p] # "none" /\ home'[p] = home[p]
             /\ pc[p] = "failed" => pc'[p] = "failed"
  BY <1>0, <1>4 DEF TurnStarted, Answered, RequestFails, Rejected, ExecEnds, TypeOK
<1>5. ASSUME NEW t \in Prompt,
             \/ Delta(t) \/ ErrorNoted(t)
             \/ \E outcome \in {"closed", "failed"} : Completed(t, outcome)
             \/ \E listening \in BOOLEAN : Ask(t, listening)
      PROVE  /\ turn[p] # "none" => turn'[p] # "none" /\ home'[p] = home[p]
             /\ pc[p] = "failed" => pc'[p] = "failed"
  BY <1>0, <1>5 DEF Delta, ErrorNoted, Completed, EndQueue, Answered, Ask, Heard, TypeOK, PromptInv, turns
<1>6. CASE Forgotten
  BY <1>0, <1>6 DEF Forgotten, Rejected, At, TypeOK
<1>7. ASSUME NEW decision, Decide(decision)
      PROVE  /\ turn[p] # "none" => turn'[p] # "none" /\ home'[p] = home[p]
             /\ pc[p] = "failed" => pc'[p] = "failed"
  BY <1>7 DEF Decide, turns
<1> QED
  BY <1>1, <1>2, <1>3, <1>4, <1>5, <1>6, <1>7 DEF Next, ThreadStarted, Stop, Exits

LEMMA TaintStays ==
  ASSUME IInv, Next, NEW p \in Prompt, turn[p] # "none", Tainted(p)
  PROVE  Tainted(p)'
<1>1. PICK f \in Prompt : home[f] = home[p] /\ Abandoned(f)
  BY DEF Tainted
<1> QED
  BY <1>1, StepOfPrompt DEF Tainted, Abandoned

(* Steps that leave the approvals alone.                                   *)
LEMMA RequestsKept ==
  ASSUME IInv, UNCHANGED approvals,
         \A c \in Child : proc'[c] = "none" => proc[c] = "none",
         child' \in {child, NoChild} \/ (child' \in Child /\ proc[child'] = "none")
  PROVE  Requests'
<1>1. \A c : Unanswered(c)' = Unanswered(c)
  BY DEF Unanswered, approvals
<1>2. \A c \in Child : proc[c] = "none" => Unanswered(c) = {}
  BY DEF IInv, Requests, Unanswered
<1> QED
  BY <1>1, <1>2 DEF IInv, Requests, YesReachesItsRequest, approvals

(* Whoever a step does not touch keeps its place.                          *)
LEMMA OthersKept ==
  ASSUME IInv, Next, NEW p \in Prompt,
         UNCHANGED <<child, booting>>,
         pc'[p] = pc[p], turn'[p] = turn[p], home'[p] = home[p], got'[p] = got[p],
         p = active' <=> p = active,
         p = active => queue' = queue
  PROVE  PromptInv(p)' /\ TextInv(p)'
<1>1. PromptInv(p) /\ TextInv(p)
  BY DEF IInv
<1>2. PromptInv(p)'
  BY <1>1 DEF PromptInv
<1>3. turn[p] # "none" /\ Tainted(p) => Tainted(p)'
  BY TaintStays
<1>4. p = active => turn[p] # "none"
  BY <1>1 DEF PromptInv
<1>5. TextInv(p)'
  BY <1>1, <1>3, <1>4 DEF TextInv, PromptInv
<1> QED
  BY <1>2, <1>5

-----------------------------------------------------------------------------
(* Prompts                                                                 *)

LEMMA StartTurnStep ==
  ASSUME IInv, Next, NEW p \in Prompt, NEW t \in Prompt, StartTurn(p, t),
         pc[p] \in {"idle", "thread"}, child # NoChild, ~booting,
         UNCHANGED <<child, proc, booting, got, approvals, lost>>,
         thread' \in Prompt
  PROVE  IInv'
<1> USE NoneIsNoPrompt
<1>0. TypeOK /\ Tracked /\ PromptInv(p) /\ TextInv(p)
  BY DEF IInv
<1>1. TypeOK'
  <2>1. /\ active' \in Prompt \union {None}
        /\ queue' \in {"open", "closed", "failed"}
        /\ home' \in [Prompt -> [child : Child \union {NoChild}, thread : Prompt \union {None}]]
        /\ turn' \in [Prompt -> {"none", "running", "ended"}]
    <3>1. [child |-> child, thread |-> t] \in [child : Child \union {NoChild}, thread : Prompt \union {None}]
      BY <1>0 DEF TypeOK
    <3>2. CASE active # None
      BY <1>0, <3>2 DEF TypeOK, StartTurn
    <3>3. CASE active = None
      <4>1. /\ active' = p /\ queue' = "open"
            /\ home' = [home EXCEPT ![p] = [child |-> child, thread |-> t]]
            /\ turn' = [turn EXCEPT ![p] = "running"]
        BY <3>3 DEF StartTurn
      <4> QED
        BY <1>0, <3>1, <4>1 DEF TypeOK
    <3> QED
      BY <3>2, <3>3
  <2>2. pc' \in [Prompt -> {"idle", "booting", "thread", "starting", "reading", "exec"} \union Ended]
    <3>1. pc' = [pc EXCEPT ![p] = "failed"] \/ pc' = [pc EXCEPT ![p] = "starting"]
      BY DEF StartTurn
    <3> QED
      BY <1>0, <3>1 DEF TypeOK, Ended
  <2> QED
    BY <1>0, <2>1, <2>2 DEF TypeOK, approvals
<1>2. Tracked'
  BY <1>0 DEF Tracked, Live
<1>3. Requests'
  BY <1>0, RequestsKept
<1>4. turn[p] = "none" /\ got[p] = {}
  BY <1>0 DEF PromptInv
<1>5. PromptInv(p)' /\ TextInv(p)'
  BY <1>0, <1>4 DEF TypeOK, StartTurn, PromptInv, TextInv
<1>6. ASSUME NEW q \in Prompt, q # p PROVE PromptInv(q)' /\ TextInv(q)'
  <2>1. /\ pc'[q] = pc[q] /\ turn'[q] = turn[q] /\ home'[q] = home[q] /\ got'[q] = got[q]
        /\ q = active' <=> q = active
        /\ q = active => queue' = queue
    BY <1>0, <1>6 DEF TypeOK, StartTurn
  <2> QED
    BY <2>1, OthersKept
<1> QED
  BY <1>1, <1>2, <1>3, <1>5, <1>6 DEF IInv

LEMMA BootStep ==
  ASSUME IInv, Next, NEW p \in Prompt, pc[p] = "idle", child = NoChild \/ booting, Boot(p),
         UNCHANGED <<thread, active, queue, home, turn, got, approvals, lost>>
  PROVE  IInv'
<1> USE NoneIsNoPrompt
<1>0. TypeOK /\ Tracked /\ \A q \in Prompt : PromptInv(q) /\ TextInv(q)
  BY DEF IInv
<1>1. booting' = TRUE /\ child' \in Child /\ proc'[child'] # "none"
  BY <1>0 DEF Boot, TypeOK, Tracked
<1>2. /\ \A c \in Child : proc'[c] = "none" => proc[c] = "none"
      /\ child' = child \/ proc[child'] = "none"
      /\ Live' \subseteq {child'} \union lost
      /\ proc' \in [Child -> {"none", "live", "killed", "gone"}]
  BY <1>0 DEF Boot, TypeOK, Tracked, Live
<1>3. pc' = [pc EXCEPT ![p] = "booting"]
  BY DEF Boot
<1>4. TypeOK'
  BY <1>0, <1>1, <1>2, <1>3 DEF TypeOK, approvals
<1>5. Tracked'
  BY <1>1, <1>2 DEF Tracked
<1>6. Requests'
  BY <1>1, <1>2, RequestsKept
<1>7. \A q \in Prompt : turn[q] # "running" /\ q # active
  BY <1>0 DEF PromptInv
<1>8. ASSUME NEW q \in Prompt PROVE PromptInv(q)' /\ TextInv(q)'
  <2>1. pc[q] # "thread"
    BY <1>0 DEF PromptInv
  <2>2. pc'[q] = IF q = p THEN "booting" ELSE pc[q]
    BY <1>0, <1>3 DEF TypeOK
  <2>3. PromptInv(q)'
    BY <1>0, <1>1, <1>7, <2>1, <2>2 DEF PromptInv
  <2>4. turn[q] # "none" /\ Tainted(q) => Tainted(q)'
    BY TaintStays
  <2>5. TextInv(q)'
    BY <1>0, <1>7, <2>2, <2>4 DEF PromptInv, TextInv
  <2> QED
    BY <2>3, <2>5
<1> QED
  BY <1>4, <1>5, <1>6, <1>8 DEF IInv

LEMMA SendStep ==
  ASSUME IInv, Next, NEW p \in Prompt, Send(p)
  PROVE  IInv'
<1> USE NoneIsNoPrompt
<1>0. TypeOK /\ Tracked
  BY DEF IInv
<1>1. pc[p] = "idle" /\ UNCHANGED <<got, approvals, lost>>
  BY DEF Send
<1>2. CASE child = NoChild \/ booting
  BY <1>1, <1>2, BootStep DEF Send
<1>3. CASE child # NoChild /\ ~booting /\ thread = None
  <2>1. pc' = [pc EXCEPT ![p] = "thread"] /\ UNCHANGED <<server, active, queue, home, turn>>
    BY <1>3 DEF Send
  <2>2. TypeOK' /\ Tracked'
    BY <1>0, <1>1, <2>1 DEF TypeOK, Tracked, Live, server, approvals
  <2>3. Requests'
    BY <1>1, <2>1, RequestsKept DEF server
  <2>4. PromptInv(p)' /\ TextInv(p)'
    BY <1>0, <1>1, <1>3, <2>1 DEF IInv, TypeOK, PromptInv, TextInv, server
  <2>5. ASSUME NEW q \in Prompt, q # p PROVE PromptInv(q)' /\ TextInv(q)'
    BY <1>0, <1>1, <2>1, <2>5, OthersKept DEF TypeOK, server
  <2> QED
    BY <2>2, <2>3, <2>4, <2>5 DEF IInv
<1>4. CASE child # NoChild /\ ~booting /\ thread # None
  <2>1. StartTurn(p, thread) /\ UNCHANGED server /\ thread \in Prompt
    BY <1>0, <1>4 DEF Send, TypeOK
  <2> QED
    BY <1>1, <1>4, <2>1, StartTurnStep DEF server
<1> QED
  BY <1>2, <1>3, <1>4

LEMMA ThreadStartedStep ==
  ASSUME IInv, Next, NEW p \in Prompt, ThreadStarted(p)
  PROVE  IInv'
<1>1. child # NoChild /\ ~booting
  BY DEF ThreadStarted, IInv, PromptInv
<1> QED
  BY <1>1, StartTurnStep DEF ThreadStarted

LEMMA BootEndsStep ==
  ASSUME IInv, Next, Booted \/ BootFails
  PROVE  IInv'
<1> USE NoneIsNoPrompt
<1>0. TypeOK /\ Tracked /\ booting /\ child \in Child /\ \A q \in Prompt : PromptInv(q) /\ TextInv(q)
  BY DEF IInv, Booted, BootFails, Tracked, TypeOK
<1>1. \A q \in Prompt : turn[q] # "running" /\ q # active
  BY <1>0 DEF PromptInv
<1>2. /\ booting' = FALSE /\ child' \in {child, NoChild} /\ thread' \in {thread, None}
      /\ UNCHANGED <<active, queue, home, turn, got, approvals, lost>>
      /\ \A q \in Prompt :
           \/ pc'[q] = pc[q] /\ pc[q] # "booting"
           \/ pc[q] = "booting" /\ pc'[q] = "thread" /\ child' = child
           \/ pc[q] = "booting" /\ pc'[q] \in {"exec", "failed"}
      /\ \A c \in Child : proc'[c] = "none" => proc[c] = "none"
      /\ child' = child => proc' = proc
      /\ child' # child => proc' = [proc EXCEPT ![child] = "killed"]
  BY <1>0 DEF Booted, BootFails, Rejected, At, TypeOK
<1>3. TypeOK'
  <2>1. pc' \in [Prompt -> {"idle", "booting", "thread", "starting", "reading", "exec"} \union Ended]
    BY <1>0 DEF TypeOK, Booted, BootFails, Rejected, Ended
  <2>2. proc' \in [Child -> {"none", "live", "killed", "gone"}]
    BY <1>0, <1>2 DEF TypeOK
  <2>3. UNCHANGED <<active, queue, home, turn, got, asked, slot, accepted, lost>>
    BY <1>2 DEF approvals
  <2>4. child' \in Child \union {NoChild} /\ booting' \in BOOLEAN /\ thread' \in Prompt \union {None}
    BY <1>0, <1>2 DEF TypeOK
  <2>5. TypeOK
    BY <1>0
  <2> QED
    BY <2>1, <2>2, <2>3, <2>4, <2>5 DEF TypeOK
<1>4. Tracked'
  BY <1>0, <1>2 DEF Tracked, Live, TypeOK
<1>5. Requests'
  BY <1>2, RequestsKept
<1>6. ASSUME NEW q \in Prompt PROVE PromptInv(q)' /\ TextInv(q)'
  <2>1. pc[q] # "thread"
    BY <1>0 DEF PromptInv
  <2>2. PromptInv(q)'
    BY <1>0, <1>1, <1>2, <2>1 DEF PromptInv
  <2>3. turn[q] # "none" /\ Tainted(q) => Tainted(q)'
    BY TaintStays
  <2>4. TextInv(q)'
    BY <1>0, <1>1, <1>2, <2>3 DEF PromptInv, TextInv
  <2> QED
    BY <2>2, <2>4
<1> QED
  BY <1>3, <1>4, <1>5, <1>6 DEF IInv

(* A prompt whose turn runs on after it was told of a failure taints the   *)
(* thread, itself included.                                                *)
LEMMA FailureTaints ==
  ASSUME IInv, Next, NEW p \in Prompt, turn[p] # "none", pc'[p] = "failed"
  PROVE  Tainted(p)'
<1>1. turn'[p] # "none"
  BY StepOfPrompt
<1> QED
  BY <1>1 DEF Tainted, Abandoned

(* The active prompt ends in an answer or a failure.                       *)
LEMMA AnsweredStep ==
  ASSUME IInv, Next, NEW p \in Prompt, p = active, NEW outcome \in {"closed", "failed"},
         Answered(p, outcome),
         outcome = "closed" => turn'[p] = "ended" \/ Tainted(p),
         UNCHANGED <<server, home, got, approvals, lost>>,
         \/ UNCHANGED turn
         \/ turn' = [turn EXCEPT ![p] = "ended"]
  PROVE  IInv'
<1> USE NoneIsNoPrompt
<1>0. TypeOK /\ Tracked /\ PromptInv(p) /\ TextInv(p) /\ turn[p] # "none"
  BY DEF IInv, PromptInv
<1>1. pc' = [pc EXCEPT ![p] = IF outcome = "closed" THEN "answered" ELSE "failed"]
      /\ active' = None /\ queue' = "closed"
  BY DEF Answered
<1>2. turn' \in [Prompt -> {"none", "running", "ended"}]
  BY <1>0 DEF TypeOK
<1>3. TypeOK'
  BY <1>0, <1>1, <1>2 DEF TypeOK, Ended, server, approvals
<1>4. Tracked'
  BY <1>0 DEF Tracked, Live, server
<1>5. Requests'
  BY RequestsKept DEF server
<1>6. PromptInv(p)' /\ TextInv(p)'
  <2>1. pc'[p] \in {"answered", "failed"} /\ turn'[p] # "none" /\ (turn'[p] = "running" => turn[p] = "running")
    BY <1>0, <1>1, StepOfPrompt DEF TypeOK
  <2>2. PromptInv(p)'
    BY <1>0, <1>1, <2>1 DEF PromptInv, server
  <2>3. Tainted(p) \/ pc'[p] = "failed" => Tainted(p)'
    BY <1>0, TaintStays, FailureTaints
  <2>4. pc'[p] = "failed" \/ turn'[p] = "ended" \/ Tainted(p)
    BY <1>0, <1>1 DEF TypeOK
  <2>5. TextInv(p)'
    BY <1>0, <1>1, <2>1, <2>3, <2>4 DEF TextInv
  <2> QED
    BY <2>2, <2>5
<1>7. ASSUME NEW q \in Prompt, q # p PROVE PromptInv(q)' /\ TextInv(q)'
  <2>1. pc'[q] = pc[q] /\ turn'[q] = turn[q] /\ q # active /\ q # active'
    BY <1>0, <1>1, <1>7 DEF TypeOK
  <2> QED
    BY <2>1, OthersKept DEF server
<1> QED
  BY <1>3, <1>4, <1>5, <1>6, <1>7 DEF IInv

LEMMA TurnStartedStep ==
  ASSUME IInv, Next, NEW p \in Prompt, TurnStarted(p)
  PROVE  IInv'
<1> USE NoneIsNoPrompt
<1>0. TypeOK /\ Tracked /\ PromptInv(p) /\ TextInv(p)
  BY DEF IInv
<1>1. p = active /\ pc[p] = "starting" /\ UNCHANGED <<server, home, turn, got, approvals, lost>>
  BY <1>0 DEF TurnStarted, PromptInv
<1>2. CASE queue = "open" /\ pc' = [pc EXCEPT ![p] = "reading"] /\ UNCHANGED <<active, queue>>
  <2>1. TypeOK' /\ Tracked'
    BY <1>0, <1>1, <1>2 DEF TypeOK, Tracked, Live, server, approvals
  <2>2. Requests'
    BY <1>1, RequestsKept DEF server
  <2>3. PromptInv(p)' /\ TextInv(p)'
    <3>1. turn[p] # "none" /\ (Tainted(p) => Tainted(p)')
      BY <1>0, <1>1, TaintStays DEF PromptInv
    <3> QED
      BY <1>0, <1>1, <1>2, <3>1 DEF TypeOK, PromptInv, TextInv, server
  <2>4. ASSUME NEW q \in Prompt, q # p PROVE PromptInv(q)' /\ TextInv(q)'
    BY <1>0, <1>1, <1>2, <2>4, OthersKept DEF TypeOK, server
  <2> QED
    BY <2>1, <2>2, <2>3, <2>4 DEF IInv
<1>3. CASE queue # "open" /\ Answered(p, queue)
  <2>1. queue \in {"closed", "failed"}
    BY <1>0, <1>3 DEF TypeOK
  <2>2. queue = "closed" => turn'[p] = "ended" \/ Tainted(p)
    BY <1>0, <1>1 DEF TextInv
  <2> QED
    BY <1>1, <1>3, <2>1, <2>2, AnsweredStep
<1> QED
  BY <1>2, <1>3 DEF TurnStarted

LEMMA RequestFailsStep ==
  ASSUME IInv, Next, NEW p \in Prompt, RequestFails(p)
  PROVE  IInv'
<1> USE NoneIsNoPrompt
<1>0. TypeOK /\ Tracked /\ PromptInv(p) /\ TextInv(p)
  BY DEF IInv
<1>1. UNCHANGED <<server, home, turn, got, approvals, lost>>
  BY DEF RequestFails
<1>2. CASE p = active
  <2>1. pc[p] = "starting" /\ Answered(p, "failed")
    BY <1>0, <1>2 DEF RequestFails, Rejected, PromptInv, Answered, TypeOK
  <2> QED
    BY <1>1, <1>2, <2>1, AnsweredStep
<1>3. CASE p # active
  <2>1. pc[p] = "thread" /\ UNCHANGED <<active, queue>> /\ turn[p] = "none"
    BY <1>0, <1>3 DEF RequestFails, PromptInv
  <2>2. pc'[p] \in {"exec", "failed"} /\ (\A q \in Prompt : q # p => pc'[q] = pc[q])
    BY <1>0, <2>1 DEF RequestFails, Rejected, TypeOK
  <2>3. TypeOK'
    <3>1. pc' \in [Prompt -> {"idle", "booting", "thread", "starting", "reading", "exec"} \union Ended]
      BY <1>0 DEF TypeOK, RequestFails, Rejected, Ended
    <3> QED
      BY <1>0, <1>1, <2>1, <3>1 DEF TypeOK, server, approvals
  <2>4. Tracked'
    BY <1>0, <1>1 DEF Tracked, Live, server
  <2>5. Requests'
    BY <1>1, RequestsKept DEF server
  <2>6. PromptInv(p)' /\ TextInv(p)'
    BY <1>0, <1>1, <1>3, <2>1, <2>2 DEF PromptInv, TextInv, server
  <2>7. ASSUME NEW q \in Prompt, q # p PROVE PromptInv(q)' /\ TextInv(q)'
    BY <1>1, <2>1, <2>2, <2>7, OthersKept DEF server
  <2> QED
    BY <2>3, <2>4, <2>5, <2>6, <2>7 DEF IInv
<1> QED
  BY <1>2, <1>3

LEMMA ExecEndsStep ==
  ASSUME IInv, Next, NEW p \in Prompt, NEW ok \in BOOLEAN, ExecEnds(p, ok)
  PROVE  IInv'
<1> USE NoneIsNoPrompt
<1>0. TypeOK /\ Tracked /\ PromptInv(p) /\ TextInv(p)
  BY DEF IInv
<1>1. /\ pc[p] = "exec" /\ UNCHANGED <<server, active, queue, home, turn, got, approvals, lost>>
      /\ pc' = [pc EXCEPT ![p] = IF ok THEN "execAnswered" ELSE "execFailed"]
  BY DEF ExecEnds
<1>2. TypeOK' /\ Tracked'
  BY <1>0, <1>1 DEF TypeOK, Tracked, Live, Ended, server, approvals
<1>3. Requests'
  BY <1>1, RequestsKept DEF server
<1>4. PromptInv(p)' /\ TextInv(p)'
  BY <1>0, <1>1 DEF TypeOK, PromptInv, TextInv, server
<1>5. ASSUME NEW q \in Prompt, q # p PROVE PromptInv(q)' /\ TextInv(q)'
  BY <1>0, <1>1, <1>5, OthersKept DEF TypeOK, server
<1> QED
  BY <1>2, <1>3, <1>4, <1>5 DEF IInv

-----------------------------------------------------------------------------
(* Notifications                                                           *)

(* What the active turn hears comes from its own app-server and thread; a  *)
(* turn that is not the active one taints both.                            *)
LEMMA HeardTaints ==
  ASSUME IInv, NEW t \in Prompt, Runs(t), Heard(t)
  PROVE  /\ active \in Prompt /\ turn[active] # "none"
         /\ t # active => Tainted(active)
<1>1. TypeOK /\ active \in Prompt
  BY DEF IInv, TypeOK, Heard
<1>2. PromptInv(active) /\ PromptInv(t) /\ TextInv(t)
  BY <1>1 DEF IInv
<1>3. home[t].child = home[active].child /\ home[t].thread = home[active].thread
  BY <1>2 DEF PromptInv, Runs, Heard
<1>4. home[t] = home[active]
  <2>1. home[t] = [child |-> home[t].child, thread |-> home[t].thread]
    BY <1>1 DEF TypeOK
  <2>2. home[active] = [child |-> home[active].child, thread |-> home[active].thread]
    BY <1>1 DEF TypeOK
  <2> QED
    BY <2>1, <2>2, <1>3
<1>5. t # active => Tainted(t)
  BY <1>2 DEF TextInv, Runs
<1> QED
  BY <1>1, <1>2, <1>4, <1>5 DEF PromptInv, Tainted

LEMMA DeltaStep ==
  ASSUME IInv, Next, NEW t \in Prompt, Delta(t)
  PROVE  IInv'
<1> USE NoneIsNoPrompt
<1>0. TypeOK /\ Tracked
  BY DEF IInv
<1>1. active \in Prompt /\ turn[active] # "none" /\ (t # active => Tainted(active))
  BY HeardTaints DEF Delta
<1>2. /\ got' = [got EXCEPT ![active] = @ \union {t}]
      /\ UNCHANGED <<server, active, queue, pc, home, turn, approvals, lost>>
  BY DEF Delta
<1>3. TypeOK' /\ Tracked'
  BY <1>0, <1>1, <1>2 DEF TypeOK, Tracked, Live, server, approvals
<1>4. Requests'
  BY <1>2, RequestsKept DEF server
<1>5. PromptInv(active)' /\ TextInv(active)'
  <2>1. PromptInv(active) /\ TextInv(active) /\ (Tainted(active) => Tainted(active)')
    BY <1>1, <1>2 DEF IInv, Tainted, Abandoned
  <2>2. got'[active] = got[active] \union {t}
    BY <1>0, <1>1, <1>2 DEF TypeOK
  <2> QED
    BY <1>1, <1>2, <2>1, <2>2 DEF PromptInv, TextInv, Tainted, Abandoned, server
<1>6. ASSUME NEW q \in Prompt, q # active PROVE PromptInv(q)' /\ TextInv(q)'
  BY <1>0, <1>2, <1>6, OthersKept DEF TypeOK, server
<1> QED
  BY <1>2, <1>3, <1>4, <1>5, <1>6 DEF IInv

(* A turn ends, or its error is noted, and the prompt that is active goes  *)
(* on to wait for the answer to turn/start.                                *)
LEMMA NotedStep ==
  ASSUME IInv, Next, NEW t \in Prompt, Runs(t),
         turn' = turn \/ turn' = [turn EXCEPT ![t] = "ended"],
         UNCHANGED <<server, active, pc, home, got, approvals, lost>>,
         queue' \in {"open", "closed", "failed"},
         active # None /\ queue' = "closed" =>
           queue = "closed" \/ turn'[active] = "ended" \/ Tainted(active)
  PROVE  IInv'
<1> USE NoneIsNoPrompt
<1>0. TypeOK /\ Tracked
  BY DEF IInv
<1>1. TypeOK'
  <2>1. turn' \in [Prompt -> {"none", "running", "ended"}]
    BY <1>0 DEF TypeOK
  <2> QED
    BY <1>0, <2>1 DEF TypeOK, server, approvals
<1>2. Tracked'
  BY <1>0 DEF Tracked, Live, server
<1>3. Requests'
  BY RequestsKept DEF server
<1>4. ASSUME NEW q \in Prompt PROVE PromptInv(q)' /\ TextInv(q)'
  <2>1. PromptInv(q) /\ TextInv(q)
    BY DEF IInv
  <2>2. turn'[q] = turn[q] \/ (turn[q] = "running" /\ turn'[q] = "ended")
    BY <1>0 DEF TypeOK, Runs
  <2>3. PromptInv(q)'
    BY <2>1, <2>2 DEF PromptInv, server
  <2>4. turn[q] # "none" /\ Tainted(q) => Tainted(q)'
    BY TaintStays
  <2>5. TextInv(q)'
    BY <2>1, <2>2, <2>4 DEF PromptInv, TextInv
  <2> QED
    BY <2>3, <2>5
<1> QED
  BY <1>1, <1>2, <1>3, <1>4 DEF IInv

LEMMA CompletedStep ==
  ASSUME IInv, Next, NEW t \in Prompt, NEW outcome \in {"closed", "failed"}, Completed(t, outcome)
  PROVE  IInv'
<1> USE NoneIsNoPrompt
<1>0. TypeOK
  BY DEF IInv
<1>1. /\ Runs(t) /\ turn' = [turn EXCEPT ![t] = "ended"]
      /\ UNCHANGED <<server, home, got, approvals, lost>>
  BY DEF Completed
<1>2. CASE ~Heard(t)
  <2>1. UNCHANGED <<active, queue, pc>>
    BY <1>2 DEF Completed
  <2> QED
    BY <1>0, <1>1, <2>1, NotedStep DEF TypeOK
<1>3. CASE Heard(t) /\ pc[active] = "reading"
  <2>1. t = active /\ Answered(t, outcome)
    BY <1>3 DEF Completed, EndQueue, Heard
  <2>2. turn'[t] = "ended"
    BY <1>0, <1>1 DEF TypeOK
  <2> QED
    BY <1>1, <2>1, <2>2, AnsweredStep
<1>4. CASE Heard(t) /\ pc[active] # "reading"
  <2>1. queue' = (IF queue = "open" THEN outcome ELSE queue) /\ UNCHANGED <<active, pc>>
    BY <1>4 DEF Completed, EndQueue
  <2>2. turn'[t] = "ended" /\ (t # active => Tainted(active))
    BY <1>0, <1>1, <1>4, HeardTaints DEF TypeOK
  <2> QED
    BY <1>0, <1>1, <2>1, <2>2, NotedStep DEF TypeOK
<1> QED
  BY <1>2, <1>3, <1>4

LEMMA ErrorNotedStep ==
  ASSUME IInv, Next, NEW t \in Prompt, ErrorNoted(t)
  PROVE  IInv'
<1> USE NoneIsNoPrompt
<1>0. TypeOK
  BY DEF IInv
<1>1. /\ Runs(t) /\ Heard(t) /\ EndQueue("failed")
      /\ UNCHANGED <<server, home, turn, got, approvals, lost>>
  BY DEF ErrorNoted
<1>2. CASE pc[active] = "reading"
  <2>1. t = active /\ Answered(t, "failed")
    BY <1>1, <1>2 DEF EndQueue, Heard
  <2> QED
    BY <1>1, <2>1, AnsweredStep
<1>3. CASE pc[active] # "reading"
  <2>1. queue' = (IF queue = "open" THEN "failed" ELSE queue) /\ UNCHANGED <<active, pc>>
    BY <1>1, <1>3 DEF EndQueue
  <2> QED
    BY <1>0, <1>1, <2>1, NotedStep DEF TypeOK
<1> QED
  BY <1>2, <1>3

-----------------------------------------------------------------------------
(* The process goes away                                                   *)

LEMMA ForgottenStep ==
  ASSUME IInv, Next, Forgotten,
         proc' \in [Child -> {"none", "live", "killed", "gone"}],
         \A c \in Child : proc'[c] = "none" => proc[c] = "none",
         Live' \subseteq lost', lost' \subseteq Child
  PROVE  IInv'
<1> USE NoneIsNoPrompt
<1>0. TypeOK /\ Tracked
  BY DEF IInv
<1>1. /\ active' = None /\ queue' = "closed" /\ child' = NoChild /\ booting' = FALSE /\ thread' = None
      /\ turn' = [t \in Prompt |-> IF turn[t] = "none" THEN "none" ELSE "ended"]
      /\ UNCHANGED <<home, got, approvals>>
  BY DEF Forgotten
<1>2. \A q \in Prompt :
        \/ pc'[q] = pc[q] /\ pc[q] \notin {"booting", "thread", "starting", "reading"}
        \/ pc[q] \in {"booting", "thread"} /\ pc'[q] = "exec"
        \/ pc[q] \in {"starting", "reading"} /\ pc'[q] = "failed"
  BY DEF Forgotten, Rejected, At
<1>3. TypeOK'
  <2>1. pc' \in [Prompt -> {"idle", "booting", "thread", "starting", "reading", "exec"} \union Ended]
    <3>1. DOMAIN pc' = Prompt /\ pc' = [q \in Prompt |-> pc'[q]]
      BY DEF Forgotten, Rejected
    <3>2. \A q \in Prompt : pc'[q] \in {"idle", "booting", "thread", "starting", "reading", "exec"} \union Ended
      BY <1>0, <1>2 DEF TypeOK, Ended
    <3> QED
      BY <3>1, <3>2
  <2>2. turn' \in [Prompt -> {"none", "running", "ended"}]
    BY <1>1
  <2> QED
    BY <1>0, <1>1, <2>1, <2>2 DEF TypeOK, approvals
<1>4. Tracked'
  BY <1>0, <1>1 DEF Tracked
<1>5. Requests'
  BY <1>1, RequestsKept
<1>6. ASSUME NEW q \in Prompt PROVE PromptInv(q)' /\ TextInv(q)'
  <2>1. PromptInv(q) /\ TextInv(q)
    BY DEF IInv
  <2>2. turn'[q] = IF turn[q] = "none" THEN "none" ELSE "ended"
    BY <1>1
  <2>3. PromptInv(q)'
    BY <1>1, <1>2, <2>1, <2>2 DEF PromptInv
  <2>4. turn[q] # "none" /\ Tainted(q) => Tainted(q)'
    BY TaintStays
  <2>5. TextInv(q)'
    BY <1>1, <1>2, <2>1, <2>2, <2>4 DEF PromptInv, TextInv
  <2> QED
    BY <2>3, <2>5
<1> QED
  BY <1>3, <1>4, <1>5, <1>6 DEF IInv

LEMMA GoesAwayStep ==
  ASSUME IInv, Next, Stop \/ \E c \in Child : Exits(c)
  PROVE  IInv'
<1> USE NoneIsNoPrompt
<1>0. TypeOK /\ Tracked
  BY DEF IInv
<1>1. CASE Stop
  <2>1. child \in Child /\ proc' = [proc EXCEPT ![child] = "killed"] /\ lost' = lost /\ Forgotten
    BY <1>0, <1>1 DEF Stop, TypeOK
  <2>2. Live' \subseteq lost'
    BY <1>0, <2>1 DEF Live, TypeOK, Tracked
  <2> QED
    BY <1>0, <2>1, <2>2, ForgottenStep DEF TypeOK
<1>2. ASSUME NEW c \in Child, Exits(c) PROVE IInv'
  <2>1. /\ proc' = [proc EXCEPT ![c] = "gone"]
        /\ lost' = (IF child \in Live \ {c} THEN lost \union {child} ELSE lost) /\ Forgotten
    BY <1>2 DEF Exits
  <2>2. Live' = Live \ {c} /\ Live \subseteq Child
    BY <1>0, <2>1 DEF Live, TypeOK
  <2>3. Live' \subseteq lost' /\ lost' \subseteq Child
    BY <1>0, <2>1, <2>2 DEF TypeOK, Tracked
  <2> QED
    BY <1>0, <2>1, <2>3, ForgottenStep DEF TypeOK
<1> QED
  BY <1>1, <1>2

-----------------------------------------------------------------------------
(* Approvals                                                               *)

Request == [turn : Prompt, answer : {"none", "accept", "decline"}]

LEMMA ApprovalsOnly ==
  ASSUME IInv, Next, UNCHANGED <<server, turns, lost>>
  PROVE  Tracked' /\ \A p \in Prompt : PromptInv(p)' /\ TextInv(p)'
<1>1. Tracked'
  BY DEF IInv, Tracked, Live, server
<1>2. ASSUME NEW p \in Prompt PROVE PromptInv(p)' /\ TextInv(p)'
  BY OthersKept DEF server, turns
<1> QED
  BY <1>1, <1>2

LEMMA AskStep ==
  ASSUME IInv, Next, NEW t \in Prompt, NEW listening \in BOOLEAN, Ask(t, listening)
  PROVE  IInv'
<1> USE NoneIsNoPrompt
<1> DEFINE id == Len(asked[child]) + 1
           put == listening /\ slot = <<>>
           r == [turn |-> t, answer |-> IF put THEN "none" ELSE "decline"]
<1>0. TypeOK /\ Tracked /\ Requests
  BY DEF IInv
<1>1. child \in Child /\ proc[child] # "none"
  BY <1>0 DEF Ask, Runs, IInv, PromptInv, TypeOK, Tracked
<1>2. /\ asked' = [asked EXCEPT ![child] = Append(@, r)]
      /\ slot' = (IF put THEN <<child, id>> ELSE slot)
      /\ UNCHANGED <<server, turns, accepted, lost>>
  BY DEF Ask
<1>3. r \in Request /\ r.answer = (IF put THEN "none" ELSE "decline")
  BY DEF Request
<1>4. asked[child] \in Seq(Request) /\ Len(asked[child]) \in Nat
  BY <1>0, <1>1, LenProperties DEF TypeOK, Request
<1> HIDE DEF r, put
<1>5. /\ asked'[child] \in Seq(Request)
      /\ DOMAIN asked'[child] = 1 .. id
      /\ \A i \in 1 .. id : asked'[child][i] = IF i = id THEN r ELSE asked[child][i]
      /\ DOMAIN asked[child] = 1 .. Len(asked[child])
  BY <1>0, <1>1, <1>2, <1>3, <1>4, AppendProperties, LenProperties DEF TypeOK
<1>6. \A c \in Child : c # child => asked'[c] = asked[c]
  BY <1>0, <1>2 DEF TypeOK
<1>7. TypeOK'
  <2>1. asked' \in [Child -> Seq([turn : Prompt, answer : {"none", "accept", "decline"}])]
    BY <1>0, <1>1, <1>2, <1>5 DEF TypeOK, Request
  <2>2. slot' \in {<<>>} \union (Child \X Nat)
    BY <1>0, <1>1, <1>2, <1>4 DEF TypeOK
  <2> QED
    BY <1>0, <1>2, <2>1, <2>2 DEF TypeOK, server, turns
<1>8. Requests'
  <2>1. \A c \in Child : proc'[c] = "none" => asked'[c] = <<>>
    BY <1>0, <1>1, <1>2, <1>6 DEF Requests, server
  <2>2. ASSUME NEW i \in 1 .. id, asked'[child][i].answer = "none" PROVE slot' = <<child, i>>
    <3>1. CASE i = id
      <4>1. put
        BY <1>3, <1>5, <2>2, <3>1
      <4> QED
        BY <1>2, <3>1, <4>1
    <3>2. CASE i # id
      <4>1. i \in Unanswered(child)
        BY <1>4, <1>5, <2>2, <3>2 DEF Unanswered
      <4>2. slot = <<child, i>> /\ slot # <<>>
        BY <1>0, <1>1, <4>1 DEF Requests
      <4> QED
        BY <1>2, <4>2 DEF put
    <3> QED
      BY <3>1, <3>2
  <2>3. YesReachesItsRequest'
    <3>1. \A i \in 1 .. id : asked'[child][i].answer = "accept" => <<child, i>> \in accepted
      <4> SUFFICES ASSUME NEW i \in 1 .. id, asked'[child][i].answer = "accept"
                   PROVE  <<child, i>> \in accepted
        OBVIOUS
      <4>1. i # id
        BY <1>3, <1>5
      <4> QED
        BY <1>0, <1>1, <1>4, <1>5, <4>1 DEF Requests, YesReachesItsRequest
    <3> QED
      BY <1>0, <1>2, <1>5, <1>6, <3>1 DEF Requests, YesReachesItsRequest
  <2> QED
    BY <1>2, <1>5, <2>1, <2>2, <2>3 DEF Requests, Unanswered, server
<1> QED
  BY <1>2, <1>7, <1>8, ApprovalsOnly DEF IInv

LEMMA DecideStep ==
  ASSUME IInv, Next, NEW decision \in {"accept", "decline"}, Decide(decision)
  PROVE  IInv'
<1> USE NoneIsNoPrompt
<1>0. TypeOK /\ Tracked /\ Requests
  BY DEF IInv
<1>1. /\ slot # <<>> /\ slot' = <<>> /\ UNCHANGED <<server, turns, lost>>
      /\ accepted' = IF decision = "accept" THEN accepted \union {slot} ELSE accepted
  BY DEF Decide
<1>2. slot \in Child \X Nat
  BY <1>0, <1>1 DEF TypeOK
<1>3. CASE child # NoChild /\ slot[2] \in Unanswered(child)
  <2> DEFINE i == slot[2]
             s == asked[child]
  <2>1. child \in Child /\ slot = <<child, i>> /\ i \in DOMAIN s
    BY <1>0, <1>3 DEF TypeOK, Requests, Unanswered
  <2>2. s \in Seq(Request) /\ DOMAIN s = 1 .. Len(s)
    BY <1>0, <2>1, LenProperties DEF TypeOK, Request
  <2>3. asked' = [asked EXCEPT ![child][i].answer = decision]
    BY <1>3 DEF Decide
  <2> DEFINE r == [s[i] EXCEPT !.answer = decision]
             u == [s EXCEPT ![i] = r]
  <2>4. asked' = [asked EXCEPT ![child] = u]
    BY <2>3
  <2>5. r \in Request /\ r.answer = decision
    <3>1. s[i] \in Request
      <4> HIDE DEF s, i
      <4> QED
        BY <2>1, <2>2, ElementOfSeq
    <3> HIDE DEF s, i
    <3> QED
      BY <3>1 DEF Request
  <2> HIDE DEF s, i, r
  <2>6. /\ u \in Seq(Request) /\ DOMAIN u = DOMAIN s
        /\ \A j \in DOMAIN s : u[j] = IF j = i THEN r ELSE s[j]
    BY <2>1, <2>2, <2>5, ExceptSeq
  <2> HIDE DEF u
  <2>7. asked'[child] = u /\ \A c \in Child : c # child => asked'[c] = asked[c]
    BY <1>0, <2>1, <2>4 DEF TypeOK
  <2>8. TypeOK'
    <3>1. asked' \in [Child -> Seq([turn : Prompt, answer : {"none", "accept", "decline"}])]
      BY <1>0, <2>4, <2>6 DEF TypeOK, Request
    <3>2. accepted' \subseteq Child \X Nat
      BY <1>0, <1>1, <1>2 DEF TypeOK
    <3> QED
      BY <1>0, <1>1, <3>1, <3>2 DEF TypeOK, server, turns
  <2>9. Requests'
    <3>1. \A c \in Child : proc'[c] = "none" => asked'[c] = <<>>
      BY <1>0, <1>1, <2>1, <2>7 DEF Requests, Tracked, server
    <3>2. Unanswered(child)' = {}
      <4> SUFFICES ASSUME NEW j \in DOMAIN u, u[j].answer = "none" PROVE FALSE
        BY <1>1, <2>7 DEF Unanswered, server
      <4>1. j # i
        BY <2>5, <2>6
      <4>2. j \in Unanswered(child)
        BY <2>6, <4>1 DEF Unanswered, s
      <4> QED
        BY <1>0, <1>3, <2>1, <4>1, <4>2 DEF Requests
    <3>3. YesReachesItsRequest'
      <4>1. \A j \in DOMAIN u : u[j].answer = "accept" => <<child, j>> \in accepted'
        <5> SUFFICES ASSUME NEW j \in DOMAIN u, u[j].answer = "accept"
                     PROVE  <<child, j>> \in accepted'
          OBVIOUS
        <5>1. CASE j = i
          BY <1>1, <2>1, <2>5, <2>6, <5>1
        <5>2. CASE j # i
          BY <1>0, <1>1, <2>1, <2>6, <5>2 DEF Requests, YesReachesItsRequest, s
        <5> QED
          BY <5>1, <5>2
      <4> QED
        BY <1>0, <1>1, <2>7, <4>1 DEF Requests, YesReachesItsRequest
    <3> QED
      BY <1>1, <3>1, <3>2, <3>3 DEF Requests, server
  <2> QED
    BY <1>1, <2>8, <2>9, ApprovalsOnly DEF IInv
<1>4. CASE ~(child # NoChild /\ slot[2] \in Unanswered(child))
  <2>1. asked' = asked
    BY <1>4 DEF Decide
  <2>2. TypeOK'
    BY <1>0, <1>1, <1>2, <2>1 DEF TypeOK, server, turns
  <2>3. child # NoChild => Unanswered(child)' = {}
    BY <1>0, <1>1, <1>4, <2>1 DEF Requests, Unanswered, server
  <2>4. Requests'
    BY <1>0, <1>1, <2>1, <2>3 DEF Requests, YesReachesItsRequest, server
  <2> QED
    BY <1>1, <2>2, <2>4, ApprovalsOnly DEF IInv
<1> QED
  BY <1>3, <1>4

-----------------------------------------------------------------------------

LEMMA NextIInv == IInv /\ [Next]_vars => IInv'
<1> SUFFICES ASSUME IInv, [Next]_vars PROVE IInv'
  OBVIOUS
<1>1. CASE UNCHANGED vars
  BY <1>1 DEF vars, server, turns, approvals, IInv, TypeOK, Tracked, Live, PromptInv, TextInv, Tainted,
     Abandoned, Requests, Unanswered, YesReachesItsRequest
<1>2. CASE Next
  <2> USE <1>2
  <2>1. ASSUME NEW p \in Prompt,
               \/ Send(p) \/ ThreadStarted(p) \/ TurnStarted(p) \/ RequestFails(p)
               \/ \E ok \in BOOLEAN : ExecEnds(p, ok)
        PROVE  IInv'
    BY <2>1, SendStep, ThreadStartedStep, TurnStartedStep, RequestFailsStep, ExecEndsStep
  <2>2. ASSUME NEW t \in Prompt,
               \/ Delta(t) \/ ErrorNoted(t)
               \/ \E outcome \in {"closed", "failed"} : Completed(t, outcome)
               \/ \E listening \in BOOLEAN : Ask(t, listening)
        PROVE  IInv'
    BY <2>2, DeltaStep, ErrorNotedStep, CompletedStep, AskStep
  <2> QED
    BY <2>1, <2>2, BootEndsStep, GoesAwayStep, DecideStep DEF Next
<1> QED
  BY <1>1, <1>2

-----------------------------------------------------------------------------

(* Two prompts never drive the app-server at once unless the caller of one *)
(* was told that it failed, and every app-server that lives is tracked     *)
(* unless a late exit cleared its handle (ensureAppServer, ensureThread,   *)
(* sendViaAppServer and handleAppServerExit).                              *)
THEOREM ConsistentAlways == Spec => []Consistent
<1>1. IInv => Consistent
  <2> SUFFICES ASSUME IInv PROVE Consistent
    OBVIOUS
  <2>1. OneTurn
    BY DEF IInv, TextInv, Tainted, OneTurn, Runs
  <2> QED
    BY <2>1 DEF IInv, Tracked, Consistent, OneAppServer
<1> QED
  BY <1>1, InitIInv, NextIInv, PTL DEF Spec

(* The text a prompt is answered with is that of its own turn and all of   *)
(* it, unless a turn of its thread was abandoned (handleNotification and   *)
(* the queue of activeTurn).                                               *)
THEOREM OwnAnswerAlways == Spec => []OwnAnswer
<1>1. IInv => OwnAnswer
  BY DEF IInv, TextInv, Tainted, OwnAnswer
<1> QED
  BY <1>1, InitIInv, NextIInv, PTL DEF Spec

(* A prompt that went to codex exec has no turn at the app-server          *)
(* (sendPrompt and its fallback).                                          *)
THEOREM NeverBothWaysAlways == Spec => []NeverBothWays
<1>1. IInv => NeverBothWays
  BY DEF IInv, PromptInv, NeverBothWays
<1> QED
  BY <1>1, InitIInv, NextIInv, PTL DEF Spec

(* What an app-server was told to go ahead with is what the operator said  *)
(* yes to, though request ids start anew in each app-server and the        *)
(* response goes to the one tracked by then (onApprovalRequest and the     *)
(* one slot of the approval registry).                                     *)
THEOREM YesReachesItsRequestAlways == Spec => []YesReachesItsRequest
<1>1. IInv => YesReachesItsRequest
  BY DEF IInv, Requests
<1> QED
  BY <1>1, InitIInv, NextIInv, PTL DEF Spec

=============================================================================
