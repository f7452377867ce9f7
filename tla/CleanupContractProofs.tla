----------------------- MODULE CleanupContractProofs -----------------------
(***************************************************************************)
(* Cleanup implements CleanupContract.                                     *)
(***************************************************************************)
EXTENDS CleanupProofs, SequenceTheorems

(* What an element more makes of a short sequence.                         *)
LEMMA AppendOne ==
    /\ \A a, b : <<a>> \o <<b>> = <<a, b>>
    /\ \A a, b, c : <<a, b>> \o <<c>> = <<a, b, c>>
    /\ \A a, b, c, d : <<a, b, c>> \o <<d>> = <<a, b, c, d>>
<1>1. ASSUME NEW a, NEW b PROVE <<a>> \o <<b>> = <<a, b>>
  <2> DEFINE S == {a, b}
  <2>1. <<a>> \in Seq(S) /\ <<b>> \in Seq(S) /\ <<a, b>> \in Seq(S)
    OBVIOUS
  <2> HIDE DEF S
  <2>2. <<a>> \o <<b>> \in Seq(S) /\ Len(<<a>> \o <<b>>) = 2
    BY <2>1
  <2>3. \A i \in 1 .. 2 : (<<a>> \o <<b>>)[i] = <<a, b>>[i]
    BY <2>1
  <2>4. QED
    BY <2>1, <2>2, <2>3, SeqEqual
<1>2. ASSUME NEW a, NEW b, NEW c PROVE <<a, b>> \o <<c>> = <<a, b, c>>
  <2> DEFINE S == {a, b, c}
  <2>1. <<a, b>> \in Seq(S) /\ <<c>> \in Seq(S) /\ <<a, b, c>> \in Seq(S)
    OBVIOUS
  <2> HIDE DEF S
  <2>2. <<a, b>> \o <<c>> \in Seq(S) /\ Len(<<a, b>> \o <<c>>) = 3
    BY <2>1
  <2>3. \A i \in 1 .. 3 : (<<a, b>> \o <<c>>)[i] = <<a, b, c>>[i]
    BY <2>1
  <2>4. QED
    BY <2>1, <2>2, <2>3, SeqEqual
<1>3. ASSUME NEW a, NEW b, NEW c, NEW d PROVE <<a, b, c>> \o <<d>> = <<a, b, c, d>>
  <2> DEFINE S == {a, b, c, d}
  <2>1. <<a, b, c>> \in Seq(S) /\ <<d>> \in Seq(S) /\ <<a, b, c, d>> \in Seq(S)
    OBVIOUS
  <2> HIDE DEF S
  <2>2. <<a, b, c>> \o <<d>> \in Seq(S) /\ Len(<<a, b, c>> \o <<d>>) = 4
    BY <2>1
  <2>3. \A i \in 1 .. 4 : (<<a, b, c>> \o <<d>>)[i] = <<a, b, c, d>>[i]
    BY <2>1
  <2>4. QED
    BY <2>1, <2>2, <2>3, SeqEqual
<1>4. QED
  BY <1>1, <1>2, <1>3

(* What a request asks for, by its flags.                                  *)
LEMMA AskedIs ==
    ASSUME NEW request
    PROVE  LET keepsQueue == Skip(queue, request)
               keepsCertManager == Skip(certManager, request)
           IN  /\ keepsQueue /\ keepsCertManager => Asked(request) = <<mural, muralCRDs>>
               /\ keepsQueue /\ ~keepsCertManager =>
                    Asked(request) = <<mural, muralCRDs, certManager>>
               /\ ~keepsQueue /\ keepsCertManager =>
                    Asked(request) = <<mural, muralCRDs, queue>>
               /\ ~keepsQueue /\ ~keepsCertManager =>
                    Asked(request) = <<mural, muralCRDs, queue, certManager>>
<1>1. ~Skip(mural, request) /\ ~Skip(muralCRDs, request)
  BY SkipShape
<1>2. <<mural>> \o <<muralCRDs>> = <<mural, muralCRDs>>
  BY AppendOne
<1>3. /\ <<mural, muralCRDs>> \o <<>> = <<mural, muralCRDs>>
      /\ <<mural, muralCRDs, queue>> \o <<>> = <<mural, muralCRDs, queue>>
  OBVIOUS
<1>4. /\ <<mural, muralCRDs>> \o <<queue>> = <<mural, muralCRDs, queue>>
      /\ <<mural, muralCRDs>> \o <<certManager>> = <<mural, muralCRDs, certManager>>
  BY AppendOne
<1>5. <<mural, muralCRDs, queue>> \o <<certManager>> = <<mural, muralCRDs, queue, certManager>>
  BY AppendOne
<1>6. Skip(queue, request) /\ Skip(certManager, request) =>
        Asked(request) = <<mural>> \o <<muralCRDs>> \o <<>> \o <<>>
  BY <1>1, PlanShape DEF Asked
<1>7. Skip(queue, request) /\ ~Skip(certManager, request) =>
        Asked(request) = <<mural>> \o <<muralCRDs>> \o <<>> \o <<certManager>>
  BY <1>1, PlanShape DEF Asked
<1>8. ~Skip(queue, request) /\ Skip(certManager, request) =>
        Asked(request) = <<mural>> \o <<muralCRDs>> \o <<queue>> \o <<>>
  BY <1>1, PlanShape DEF Asked
<1>9. ~Skip(queue, request) /\ ~Skip(certManager, request) =>
        Asked(request) = <<mural>> \o <<muralCRDs>> \o <<queue>> \o <<certManager>>
  BY <1>1, PlanShape DEF Asked
<1>10. QED
  BY <1>2, <1>3, <1>4, <1>5, <1>6, <1>7, <1>8, <1>9

(* The releases asked for are those of the plan that are not kept, and     *)
(* what comes before one of them in the plan comes before it.              *)
LEMMA AskedShape ==
    ASSUME NEW request
    PROVE  LET asked == Asked(request)
           IN  /\ \A i \in DOMAIN asked : \E j \in DOMAIN plan :
                     ~Skip(plan[j], request) /\ asked[i] = plan[j]
               /\ \A j \in DOMAIN plan : ~Skip(plan[j], request) =>
                     \E i \in DOMAIN asked :
                       /\ asked[i] = plan[j]
                       /\ \A k \in 1 .. i - 1 : \E m \in DOMAIN plan :
                            m < j /\ ~Skip(plan[m], request) /\ asked[k] = plan[m]
<1>1. ~Skip(plan[1], request) /\ ~Skip(plan[2], request)
  BY SkipShape, PlanShape
<1>2. CASE Skip(queue, request) /\ Skip(certManager, request)
  BY <1>1, <1>2, AskedIs, PlanShape
<1>3. CASE Skip(queue, request) /\ ~Skip(certManager, request)
  BY <1>1, <1>3, AskedIs, PlanShape
<1>4. CASE ~Skip(queue, request) /\ Skip(certManager, request)
  BY <1>1, <1>4, AskedIs, PlanShape
<1>5. CASE ~Skip(queue, request) /\ ~Skip(certManager, request)
  BY <1>1, <1>5, AskedIs, PlanShape
<1>6. QED
  BY <1>2, <1>3, <1>4, <1>5

-----------------------------------------------------------------------------
(* What the refinement needs beside IInv and NInv                          *)

(* Only the hub's namespace, if any of the releases', has the labels.      *)
LabelsAreApart == \A r \in Releases : r[2] \in Labelled => r[2] = "mural-system"

(* A namespace on its way out is not yet gone.                             *)
DoomedInv == doomed \cap gone = {}

(* A run that resets calls no Helm, and past Helm nothing is returned.     *)
LevelInv ==
    /\ phase = "uninstall" => req.level # "reset"
    /\ phase \in {"list", "drop", "sweep", "hooks"} => returned = "none"

(* What was found stays a release until Helm marks it, or is none.         *)
RecheckInv ==
    inFlight # Helm!Idle /\ inFlight.at \in {"uninstall", "marking"} =>
      Helm!releaseExists(inFlight.release) \/ record[inFlight.release] = "none"

RInv == DoomedInv /\ LevelInv /\ RecheckInv

(* The initial states satisfy these.                                       *)
LEMMA RefinementInit == ASSUME Init PROVE RInv
<1>1. inFlight = Helm!Idle
  BY DEF Init, Processes, inFlight
<1>2. QED
  BY <1>1 DEF Init, RInv, DoomedInv, LevelInv, RecheckInv

(* So does every step.                                                     *)
LEMMA RefinementStep ==
    ASSUME TypeOK, CallInv, RInv, [Next]_vars PROVE RInv'
<1>1. DoomedInv'
  <2>1. ASSUME NEW request \in Requests, Start(request) PROVE UNCHANGED <<doomed, gone>>
    BY <2>1 DEF Start, dropVars
  <2>2. CASE RunStep \/ Cancel \/ Kill \/ UNCHANGED vars
    BY <2>2 DEF RInv, DoomedInv, RunStep, UninstallNext, HelmStep, UninstallReturns,
       UninstallsDone, ListNamespaces, Delete, DropEnds, Drop!Dropped, DropReturns, NoDrop,
       ListHooks, ClearHook, HooksDone, Cancel, Kill, dropVars, vars
  <2>3. CASE \E ns \in Namespaces : Vanish(ns)
    BY <2>3 DEF RInv, DoomedInv, Vanish, Drop!Vanish
  <2>4. QED
    BY <2>1, <2>2, <2>3 DEF Next, RInv, DoomedInv
<1>2. LevelInv'
  <2>1. ASSUME NEW request \in Requests, Start(request) PROVE LevelInv'
    BY <2>1, TypeParts DEF Start, LevelInv, CallTyped, Processes, returned
  <2>2. CASE UninstallNext \/ Kill
    BY <2>2 DEF RInv, LevelInv, UninstallNext, Uninstalling, Kill, Finish, runVars
  <2>6. CASE HelmStep
    <3>1. phase = "uninstall" /\ UNCHANGED runVars
      BY <2>6, HelmShape DEF HelmStep, CallInv
    <3>2. QED
      BY <3>1 DEF RInv, LevelInv, runVars
  <2>3. CASE UninstallsDone
    BY <2>3 DEF RInv, LevelInv, UninstallsDone, Uninstalling, Finish, Goto, helmVars, returned
  <2>4. CASE UninstallReturns
    BY <2>4 DEF RInv, LevelInv, UninstallReturns, Finish
  <2>5. CASE ListNamespaces \/ DropReturns \/ ListHooks \/ ClearHook \/ HooksDone \/ Cancel
             \/ UNCHANGED vars
             \/ \E ns \in Namespaces : Delete(ns) \/ DropEnds(ns) \/ Vanish(ns)
    BY <2>5 DEF RInv, LevelInv, ListNamespaces, DropReturns, ListHooks, ClearHook, HooksDone,
       Cancel, Helm!Cancel, Delete, DropEnds, Vanish, Finish, Goto, runVars, helmVars, vars,
       returned
  <2>7. QED
    BY <2>1, <2>2, <2>3, <2>4, <2>5, <2>6 DEF Next, RunStep
<1>3. RecheckInv'
  <2>1. CASE UNCHANGED <<record, objects, lost, call>>
    BY <2>1 DEF RInv, RecheckInv, inFlight, Helm!releaseExists
  <2>2. CASE HelmStep
    <3>1. FindsIt \/ HandsOver \/ Begins \/ GivesUp \/ Deletes \/ DeletesInPart
      BY <2>2, HelmShape DEF HelmStep
    <3>2. CASE HandsOver
      <4>1. inFlight # Helm!Idle
        BY <2>2, HelmShape DEF HelmStep
      <4>2. QED
        BY <3>2, <4>1 DEF RInv, RecheckInv, HandsOver, Goes, Helm!releaseExists
    <3>3. CASE FindsIt \/ Begins \/ GivesUp \/ Deletes \/ DeletesInPart
      BY <3>3 DEF RecheckInv, FindsIt, Begins, GivesUp, Deletes, DeletesInPart, Goes,
         Helm!releaseExists
    <3>4. QED
      BY <3>1, <3>2, <3>3
  <2>3. CASE Kill /\ inFlight # Helm!Idle /\ Helm!Kill(cli)
    BY <2>3, KillShape DEF RecheckInv
  <2>4. CASE \E ns \in Namespaces : Vanish(ns)
    <3>1. PICK ns \in Namespaces : Vanish(ns)
      BY <2>4
    <3>2. SUFFICES ASSUME inFlight # Helm!Idle, inFlight.at \in {"uninstall", "marking"}
                   PROVE  (Helm!releaseExists(inFlight.release)
                             \/ record[inFlight.release] = "none")'
      BY <3>1 DEF Vanish, RecheckInv, inFlight
    <3>3. inFlight' = inFlight /\ inFlight.release \in Releases
      BY <3>1, <3>2, InFlightShape DEF Vanish, inFlight, UninstallCalls
    <3>4. record'[inFlight.release] \in {record[inFlight.release], "none"}
      BY <3>1, <3>3 DEF Vanish
    <3>5. QED
      BY <3>2, <3>3, <3>4 DEF RInv, RecheckInv, Helm!releaseExists
  <2>5. CASE inFlight'.at = "query"
    BY <2>5 DEF RecheckInv
  <2>6. QED
    BY <2>1, <2>2, <2>3, <2>4, <2>5, Quiet
<1>4. QED
  BY <1>1, <1>2, <1>3 DEF RInv

-----------------------------------------------------------------------------
(* What the caller sees                                                    *)

SInv == TypeOK /\ CallInv /\ PlanInv /\ UninstalledInv /\ DropInv /\ RInv

(* The contract's names, in those of Cleanup.                              *)
LEMMA Names ==
    /\ Contract!Spaces = {r[2] : r \in Releases}
    /\ \A r \in Releases : [x \in Releases |-> x[2]][r] = r[2]
    /\ \A r : Contract!Exists(r) <=> Helm!releaseExists(r)
BY DEF Contract!Spaces, Contract!Exists, Helm!releaseExists

(* Between runs it sees what the last one returned.                        *)
LEMMA IdleView ==
    ASSUME SInv, phase = "idle"
    PROVE  /\ teardown = verdict /\ torn = <<>> /\ taken = {} /\ deleting = {}
           /\ Contract!Idle
BY DEF SInv, CallInv, TypeOK, teardown, torn, taken, deleting, AtStep, Contract!Idle,
   interrupted

(* During a run, the level or that it is about to fail.                    *)
LEMMA RunView ==
    ASSUME SInv, phase # "idle"
    PROVE  /\ teardown = IF returned \in {"error", "cancelled"} THEN "failing" ELSE req.level
           /\ torn = Asked(req)
           /\ req.level \in {"uninstall", "full", "reset"}
           /\ ~Contract!Idle
<1>1. req.level \in {"uninstall", "full", "reset"}
  BY CleanupAssumption DEF SInv, TypeOK
<1>2. QED
  BY <1>1 DEF teardown, torn, Contract!Idle

(* The releases of a run, as the contract has them.                        *)
LEMMA TornView ==
    ASSUME SInv, phase # "idle"
    PROVE  Contract!Torn = {plan[j] : j \in {k \in DOMAIN plan : ~Skip(plan[k], req)}}
<1>1. Contract!Torn = {Asked(req)[i] : i \in DOMAIN Asked(req)}
  BY RunView DEF Contract!Torn
<1>2. QED
  BY <1>1, AskedShape

(* A step the caller does not see.                                         *)
LEMMA Unseen ==
    ASSUME UNCHANGED <<record, objects, cancelled, doomed, gone, phase, req, verdict>>,
           teardown' = teardown, taken' = taken /\ deleting' = deleting
    PROVE  UNCHANGED Contract!cvars
<1>1. namespace' = namespace /\ torn' = torn /\ interrupted' = interrupted
  BY DEF namespace, torn, Asked, Skip, interrupted
<1>2. QED
  BY <1>1 DEF Contract!cvars

-----------------------------------------------------------------------------
(* The initial states                                                      *)

LEMMA ContractInit == ASSUME Init PROVE Contract!Init
<1>1. inFlight = Helm!Idle /\ interrupted = FALSE
  BY DEF Init, Processes, inFlight, interrupted
<1>2. teardown = "none" /\ torn = <<>> /\ taken = {} /\ deleting = {}
  BY <1>1 DEF Init, teardown, torn, taken, deleting, AtStep, interrupted
<1>3. namespace \in [Contract!Spaces -> {"absent", "active"}]
  BY Names DEF Init, namespace
<1>4. record \in [Releases -> Helm!Statuses] /\ objects \in [Releases -> SUBSET Kinds]
  BY TypeInit DEF TypeOK, Helm!TypeOK
<1>5. QED
  BY <1>1, <1>2, <1>3, <1>4 DEF Contract!Init

-----------------------------------------------------------------------------
(* The operator's steps                                                    *)

(* A run begins with its releases, or is refused.                          *)
LEMMA StartSeen ==
    ASSUME SInv, NEW request \in Requests, Start(request)
    PROVE  Contract!Next
<1>1. phase = "idle" /\ interrupted' = FALSE /\ returned' = "none" /\ req' = request
  BY TypeParts DEF SInv, Start, CallTyped, Processes, interrupted, returned
<1>2. teardown = verdict /\ torn = <<>> /\ taken = {} /\ deleting = {} /\ Contract!Idle
  BY <1>1, IdleView
<1>3. UNCHANGED <<record, objects, doomed, gone, call>>
  BY DEF Start, dropVars
<1>4. namespace' = namespace /\ taken' = taken /\ deleting' = deleting
  <2>1. inFlight = Helm!Idle /\ inFlight' = Helm!Idle
    BY <1>1, <1>3 DEF SInv, CallInv, inFlight
  <2>2. QED
    BY <1>3, <2>1 DEF namespace, taken, deleting, AtStep
<1>5. CASE phase' = "idle" /\ verdict' = "error"
  <2>1. teardown' = "error" /\ torn' = torn
    BY <1>1, <1>2, <1>5 DEF teardown, torn
  <2>2. Contract!Refuse
    BY <1>2, <1>3, <1>4, <2>1 DEF Contract!Refuse
  <2>3. QED
    BY <1>1, <2>2 DEF Contract!Next
<1>6. CASE phase' # "idle"
  <2>1. teardown' = request.level /\ torn' = Asked(request)
    BY <1>1, <1>6 DEF teardown, torn, Asked, Skip
  <2>2. request.level \in Contract!Levels
    BY CleanupAssumption DEF Contract!Levels
  <2>3. Contract!Begin(request.level, Asked(request))
    BY <1>2, <1>3, <1>4, <2>1 DEF Contract!Begin
  <2>4. QED
    BY <1>1, <2>2, <2>3 DEF Contract!Next
<1>7. QED
  BY <1>5, <1>6 DEF Start

(* Ctrl-C.                                                                 *)
LEMMA CancelSeen ==
    ASSUME SInv, Cancel
    PROVE  Contract!Next
<1>1. interrupted' = TRUE
  BY TypeParts DEF SInv, Cancel, Helm!Cancel, CallTyped, Processes, interrupted
<1>2. /\ UNCHANGED <<record, objects, doomed, gone, call, result, phase, req, verdict>>
      /\ phase # "idle"
  BY DEF Cancel, Helm!Cancel, dropVars, runVars
<1>3. UNCHANGED <<namespace, teardown, torn, deleting>>
  BY <1>2 DEF namespace, teardown, torn, deleting, AtStep, inFlight, returned, Asked, Skip
<1>4. taken' \in {taken, {}}
  <2>1. interrupted = FALSE /\ inFlight' = inFlight
    BY <1>2, TypeParts
       DEF SInv, Cancel, Helm!Cancel, CallTyped, Processes, interrupted, inFlight
  <2>2. CASE inFlight # Helm!Idle /\ inFlight.at = "marking"
    BY <1>1, <2>1, <2>2 DEF taken, AtStep
  <2>3. CASE ~(inFlight # Helm!Idle /\ inFlight.at = "marking")
    BY <1>1, <2>1, <2>3 DEF taken, AtStep
  <2>4. QED
    BY <2>2, <2>3
<1>5. QED
  BY <1>1, <1>2, <1>3, <1>4, RunView DEF Contract!Next, Contract!Cancel

(* The end of a run with an error, or of the process.                      *)
LEMMA EndSeen ==
    ASSUME SInv, phase # "idle", NEW v \in {"error", "killed"}, phase' = "idle", verdict' = v,
           IF v = "error" THEN deleting = {} /\ UNCHANGED objects ELSE Contract!InPart,
           inFlight' = Helm!Idle, UNCHANGED <<record, doomed, gone, cancelled>>
    PROVE  Contract!Next
<1>1. teardown' = v /\ torn' = <<>> /\ taken' = {} /\ deleting' = {}
  BY DEF teardown, torn, taken, deleting, AtStep, interrupted
<1>2. namespace' = namespace /\ interrupted' = interrupted
  BY DEF namespace, interrupted
<1>3. Contract!ReturnError
  BY <1>1, <1>2, RunView DEF Contract!ReturnError
<1>4. QED
  BY <1>2, <1>3 DEF Contract!Next, Contract!RunStep

LEMMA KillSeen ==
    ASSUME SInv, Kill
    PROVE  Contract!Next
<1>1. phase # "idle" /\ phase' = "idle" /\ verdict' = "killed" /\ UNCHANGED <<doomed, gone>>
  BY DEF Kill, Finish, NoDrop
<1>2. CASE inFlight = Helm!Idle
  <2>1. UNCHANGED helmVars /\ taken = {} /\ deleting = {}
    BY <1>2 DEF Kill, taken, deleting, AtStep, interrupted
  <2>2. /\ UNCHANGED <<record, objects, cancelled>> /\ inFlight' = Helm!Idle
        /\ Contract!InPart
    BY <1>2, <2>1 DEF helmVars, inFlight, Contract!InPart
  <2>3. QED
    BY <1>1, <2>2, EndSeen
<1>3. CASE inFlight # Helm!Idle
  <2>1. Helm!Kill(cli)
    BY <1>3 DEF Kill
  <2>2. /\ inFlight' = Helm!Idle /\ UNCHANGED <<record, cancelled>>
        /\ \/ UNCHANGED objects /\ inFlight.at # "deleting"
           \/ /\ inFlight.at = "deleting"
              /\ \E left \in SUBSET objects[inFlight.release] :
                   objects' = [objects EXCEPT ![inFlight.release] = left]
    BY <1>3, <2>1, KillShape DEF SInv
  <2>3. Contract!InPart
    BY <1>3, <2>2 DEF Contract!InPart, taken, deleting, AtStep, interrupted
  <2>4. QED
    BY <1>1, <2>2, <2>3, EndSeen
<1>4. QED
  BY <1>2, <1>3

-----------------------------------------------------------------------------
(* Helm's steps                                                            *)

(* What the caller sees of a step of the Uninstall loop.                   *)
LEMMA UninstallNextSeen ==
    ASSUME SInv, UninstallNext
    PROVE  Contract!Next \/ UNCHANGED Contract!cvars
<1>1. PICK i \in DOMAIN plan :
        /\ Uninstalling(i)
        /\ \/ interrupted /\ Finish("error") /\ UNCHANGED helmVars
           \/ /\ ~interrupted
              /\ UNCHANGED <<phase, req, verdict, helmVars>>
           \/ /\ ~interrupted
              /\ Helm!Uninstall(cli, plan[i], RunsHooks(plan[i]))
              /\ UNCHANGED runVars
        /\ UNCHANGED <<dropVars, doomed>>
  BY DEF UninstallNext
<1>2. /\ phase = "uninstall" /\ inFlight = Helm!Idle /\ returned = "none"
      /\ taken = {} /\ deleting = {}
      /\ UNCHANGED <<doomed, gone>>
  BY <1>1 DEF Uninstalling, taken, deleting, AtStep, dropVars, interrupted
<1>3. CASE Finish("error") /\ UNCHANGED helmVars
  <2>1. /\ phase' = "idle" /\ verdict' = "error" /\ inFlight' = Helm!Idle
        /\ UNCHANGED <<record, objects, cancelled>>
    BY <1>2, <1>3 DEF Finish, helmVars, inFlight
  <2>2. QED
    BY <1>2, <2>1, EndSeen
<1>4. CASE UNCHANGED <<phase, req, verdict, helmVars>>
  <2>1. UNCHANGED <<record, objects, cancelled, call, result>>
    BY <1>4 DEF helmVars
  <2>2. teardown' = teardown /\ taken' = taken /\ deleting' = deleting
    BY <1>4, <2>1 DEF teardown, taken, deleting, AtStep, inFlight, returned, interrupted
  <2>3. QED
    BY <1>2, <1>4, <2>1, <2>2, Unseen
<1>5. CASE ~interrupted /\ Helm!Uninstall(cli, plan[i], RunsHooks(plan[i])) /\ UNCHANGED runVars
  <2>1. /\ inFlight'.at = "query" /\ returned' = "none"
        /\ UNCHANGED <<record, objects, cancelled>>
    BY <1>5, TypeParts
       DEF Helm!Uninstall, SInv, CallTyped, Processes, inFlight, returned, interrupted
  <2>2. UNCHANGED <<phase, req, verdict>>
    BY <1>5 DEF runVars
  <2>3. teardown' = teardown /\ taken' = taken /\ deleting' = deleting
    BY <1>2, <2>1, <2>2 DEF teardown, taken, deleting, AtStep, interrupted
  <2>4. QED
    BY <1>2, <2>1, <2>2, <2>3, Unseen
<1>6. QED
  BY <1>1, <1>3, <1>4, <1>5

(* A step of Helm is its beginning with the next release that is there, or *)
(* the end of a deletion, or a failure, or nothing the caller sees.        *)
LEMMA HelmSeen ==
    ASSUME SInv, HelmStep
    PROVE  Contract!Next \/ UNCHANGED Contract!cvars
<1> DEFINE r == inFlight.release
<1>1. /\ inFlight # Helm!Idle /\ inFlight \in UninstallCalls
      /\ UNCHANGED <<cancelled, dropVars, runVars, doomed>>
      /\ FindsIt \/ HandsOver \/ Begins \/ GivesUp \/ Deletes \/ DeletesInPart
  BY HelmShape, InFlightShape DEF SInv, HelmStep
<1>2. /\ phase = "uninstall" /\ returned = "none"
      /\ next \in DOMAIN plan /\ r = plan[next] /\ ~Skip(plan[next], req)
  BY <1>1 DEF SInv, CallInv
<1>3. req.level \in {"uninstall", "full"}
  BY <1>2, RunView DEF SInv, RInv, LevelInv
<1>4. /\ UNCHANGED <<phase, req, verdict, gone>>
      /\ namespace' = namespace /\ torn' = torn /\ interrupted' = interrupted
  BY <1>1 DEF namespace, torn, Asked, Skip, interrupted, dropVars, runVars
<1>5. teardown = req.level /\ torn = Asked(req)
  BY <1>2, RunView
<1>6. /\ returned' \in {"error", "cancelled"} => teardown' = "failing"
      /\ returned' \notin {"error", "cancelled"} => teardown' = teardown
  BY <1>2, <1>4, <1>5 DEF teardown
<1>7. /\ deleting = IF inFlight.at = "deleting" THEN {r} ELSE {}
      /\ taken = IF inFlight.at = "marking" \/ (inFlight.at = "uninstall" /\ ~interrupted)
                 THEN {r} ELSE {}
  BY <1>1 DEF taken, deleting, AtStep
<1>8. r \in Releases
  BY <1>1 DEF UninstallCalls
<1>9. \/ inFlight' = Helm!Idle /\ taken' = {} /\ deleting' = {}
      \/ /\ inFlight' # Helm!Idle /\ inFlight'.release = r
         /\ deleting' = IF inFlight'.at = "deleting" THEN {r} ELSE {}
         /\ taken' = IF inFlight'.at = "marking" \/ (inFlight'.at = "uninstall" /\ ~interrupted)
                     THEN {r} ELSE {}
  <2>1. inFlight' = Helm!Idle \/ Goes
    BY <1>1 DEF FindsIt, HandsOver, Begins, GivesUp, Deletes, DeletesInPart
  <2>2. CASE inFlight' = Helm!Idle
    BY <2>2 DEF taken, deleting, AtStep
  <2>3. CASE Goes
    BY <1>4, <2>3, IdleIsNoCall DEF Goes, taken, deleting, AtStep
  <2>4. QED
    BY <2>1, <2>2, <2>3
<1> HIDE DEF r
<1>10. CASE FindsIt
  <2>1. deleting = {} /\ taken = {} /\ deleting' = {} /\ teardown' = teardown
        /\ taken' = IF interrupted THEN {} ELSE {r}
    BY <1>2, <1>6, <1>7, <1>9, <1>10, IdleIsNoCall DEF FindsIt, Goes
  <2>2. CASE interrupted
    BY <1>1, <1>4, <1>10, <2>1, <2>2, Unseen DEF FindsIt
  <2>3. CASE ~interrupted
    <3>1. PICK i \in DOMAIN torn :
            /\ torn[i] = r
            /\ \A k \in 1 .. i - 1 : \E m \in DOMAIN plan :
                 m < next /\ ~Skip(plan[m], req) /\ torn[k] = plan[m]
      BY <1>2, <1>5, AskedShape
    <3>2. Helm!releaseExists(r)
      BY <1>10 DEF FindsIt, r
    <3>3. \A k \in 1 .. i - 1 : ~Helm!releaseExists(torn[k])
      BY <1>2, <3>1 DEF SInv, PlanInv
    <3>4. UNCHANGED <<record, objects>>
      BY <1>10 DEF FindsIt
    <3>5. Contract!Take(i)
      BY <1>3, <1>4, <1>5, <2>1, <2>3, <3>1, <3>2, <3>3, <3>4, Names DEF Contract!Take
    <3>6. QED
      BY <1>4, <3>5 DEF Contract!Next, Contract!RunStep
  <2>4. QED
    BY <2>2, <2>3
<1>13. CASE HandsOver
  <2>1. /\ deleting' = deleting /\ taken' = taken /\ teardown' = teardown
        /\ UNCHANGED <<record, objects>>
    BY <1>2, <1>6, <1>7, <1>9, <1>13, IdleIsNoCall DEF HandsOver, Goes
  <2>2. QED
    BY <1>1, <1>4, <2>1, Unseen
<1>14. CASE Begins
  <2>1. taken = {r} /\ taken' = {} /\ deleting' = {r} /\ teardown' = teardown
    BY <1>2, <1>6, <1>7, <1>9, <1>14, IdleIsNoCall DEF Begins, Goes
  <2>2. record' = [record EXCEPT ![r] = "uninstalling"] /\ objects' = objects
    BY <1>14 DEF Begins, r
  <2>3. Helm!releaseExists(r)
    BY <1>1, <1>14 DEF Begins, SInv, RInv, RecheckInv, r
  <2>4. Contract!BeginUninstall
    BY <1>4, <2>1, <2>2, <2>3, Names DEF Contract!BeginUninstall
  <2>5. QED
    BY <1>4, <2>4 DEF Contract!Next, Contract!RunStep
<1>11. CASE GivesUp
  <2>1. deleting = {} /\ deleting' = {} /\ taken' = {} /\ UNCHANGED <<record, objects>>
    BY <1>7, <1>9, <1>11 DEF GivesUp
  <2>2. CASE returned' \in {"error", "cancelled"}
    <3>1. Contract!Fail
      BY <1>3, <1>4, <1>5, <1>6, <2>1, <2>2 DEF Contract!Fail, Contract!Levels
    <3>2. QED
      BY <1>4, <3>1 DEF Contract!Next, Contract!RunStep
  <2>3. CASE returned' \notin {"error", "cancelled"}
    <3>1. taken = {}
      BY <1>7, <1>11, <2>3 DEF GivesUp
    <3>2. QED
      BY <1>1, <1>4, <1>6, <2>1, <2>3, <3>1, Unseen
  <2>4. QED
    BY <2>2, <2>3
<1>12. CASE Deletes \/ DeletesInPart
  <2>1. deleting = {r} /\ taken = {} /\ deleting' = {} /\ taken' = {}
    BY <1>7, <1>9, <1>12 DEF Deletes, DeletesInPart
  <2>2. teardown' \in {teardown, "failing"}
    BY <1>6
  <2>3. CASE Deletes
    BY <1>4, <2>1, <2>2, <2>3 DEF Deletes, Contract!EndUninstall, Contract!Next,
       Contract!RunStep, r
  <2>4. CASE DeletesInPart
    <3>1. teardown' = "failing"
      BY <1>6, <2>4 DEF DeletesInPart
    <3>2. Contract!InPart
      BY <2>1, <2>4 DEF DeletesInPart, Contract!InPart, r
    <3>3. QED
      BY <1>4, <2>1, <2>4, <3>1, <3>2 DEF DeletesInPart, Contract!EndUninstall, Contract!Next,
         Contract!RunStep
  <2>5. QED
    BY <1>12, <2>3, <2>4
<1>15. QED
  BY <1>1, <1>10, <1>11, <1>12, <1>13, <1>14

(* What the call returned ends the run or is passed over.                  *)
LEMMA UninstallReturnsSeen ==
    ASSUME SInv, UninstallReturns
    PROVE  Contract!Next \/ UNCHANGED Contract!cvars
<1>1. /\ phase = "uninstall" /\ returned # "none"
      /\ UNCHANGED <<record, objects, call, cancelled, dropVars, doomed>>
      /\ returned' = "none"
      /\ \/ returned \in {"ok", "notfound"} /\ UNCHANGED <<phase, req, verdict>>
         \/ returned \in {"error", "cancelled"} /\ Finish("error")
  BY TypeParts DEF SInv, UninstallReturns, CallTyped, Processes, returned
<1>2. /\ inFlight = Helm!Idle /\ taken = {} /\ deleting = {}
      /\ inFlight' = Helm!Idle /\ taken' = {} /\ deleting' = {}
  BY <1>1 DEF SInv, CallInv, taken, deleting, AtStep, inFlight, interrupted
<1>3. CASE returned \in {"ok", "notfound"} /\ UNCHANGED <<phase, req, verdict>>
  <2>1. teardown' = teardown
    BY <1>1, <1>3 DEF teardown
  <2>2. QED
    BY <1>1, <1>2, <1>3, <2>1, Unseen DEF dropVars
<1>4. CASE Finish("error")
  BY <1>1, <1>2, <1>4, EndSeen DEF Finish, dropVars
<1>5. QED
  BY <1>1, <1>3, <1>4

-----------------------------------------------------------------------------
(* The namespaces and the webhooks                                         *)

Dropping == phase \in {"list", "drop", "sweep", "hooks"}

(* Helm is done with, and nothing has failed.                              *)
LEMMA DroppingView ==
    ASSUME SInv, Dropping
    PROVE  /\ inFlight = Helm!Idle /\ taken = {} /\ deleting = {}
           /\ teardown = req.level /\ req.level \in {"full", "reset"}
           /\ req.level = "full" => Uninstalled
<1>1. phase # "idle" /\ inFlight = Helm!Idle /\ returned = "none"
  BY DEF SInv, RInv, LevelInv, CallInv, Dropping
<1>2. QED
  BY <1>1, RunView DEF SInv, UninstalledInv, Dropping, taken, deleting, AtStep, interrupted

(* The run goes on, and the caller sees nothing of it.                     *)
LEMMA Passes ==
    ASSUME SInv, phase # "idle", phase' # "idle", UNCHANGED <<req, helmVars, doomed, gone>>
    PROVE  UNCHANGED Contract!cvars
<1>1. UNCHANGED <<record, objects, call, result, cancelled>>
  BY DEF helmVars
<1>2. /\ namespace' = namespace /\ teardown' = teardown /\ torn' = torn
      /\ taken' = taken /\ deleting' = deleting
      /\ interrupted' = interrupted
  BY <1>1 DEF namespace, teardown, torn, taken, deleting, AtStep, inFlight, returned,
     interrupted, Asked, Skip
<1>3. QED
  BY <1>1, <1>2 DEF Contract!cvars

(* The run ends while Helm has nothing to do.                              *)
LEMMA FinishSeen ==
    ASSUME SInv, phase # "idle", inFlight = Helm!Idle, NEW v \in {"ok", "error"}, Finish(v),
           v = "ok" => Contract!Done, UNCHANGED <<helmVars, doomed, gone>>
    PROVE  Contract!Next
<1>1. /\ phase' = "idle" /\ verdict' = v
      /\ UNCHANGED <<record, objects, call, cancelled>>
      /\ inFlight' = Helm!Idle /\ taken = {} /\ deleting = {}
  BY DEF Finish, helmVars, inFlight, taken, deleting, AtStep, interrupted
<1>2. CASE v = "error"
  BY <1>1, <1>2, EndSeen
<1>3. CASE v = "ok"
  <2>1. /\ teardown' = "ok" /\ torn' = <<>> /\ taken' = {} /\ deleting' = {}
        /\ namespace' = namespace /\ interrupted' = interrupted
    BY <1>1, <1>3 DEF teardown, torn, taken, deleting, AtStep, namespace, interrupted
  <2>2. Contract!ReturnNil
    BY <1>1, <1>3, <2>1 DEF Contract!ReturnNil
  <2>3. QED
    BY <2>1, <2>2 DEF Contract!Next, Contract!RunStep
<1>4. QED
  BY <1>2, <1>3

(* At the end of the plan none of its releases is there.                   *)
LEMMA UninstallsDoneSeen ==
    ASSUME SInv, UninstallsDone
    PROVE  Contract!Next \/ UNCHANGED Contract!cvars
<1>1. /\ phase = "uninstall" /\ inFlight = Helm!Idle /\ returned = "none" /\ next = 5
      /\ UNCHANGED <<helmVars, doomed, gone>>
      /\ IF req.level = "uninstall" THEN Finish("ok") ELSE Goto("list")
  BY PlanShape DEF UninstallsDone, Uninstalling, dropVars
<1>2. CASE req.level = "uninstall"
  <2>1. \A j \in DOMAIN plan : ~Skip(plan[j], req) => ~Helm!releaseExists(plan[j])
    BY <1>1, PlanShape DEF SInv, PlanInv
  <2>2. teardown = "uninstall"
    BY <1>1, <1>2, RunView
  <2>3. \A r \in Contract!Torn : ~Contract!Exists(r)
    BY <1>1, <2>1, TornView, Names
  <2>4. Contract!Done
    BY <2>2, <2>3 DEF Contract!Done
  <2>5. QED
    BY <1>1, <1>2, <2>4, FinishSeen
<1>3. CASE req.level # "uninstall"
  BY <1>1, <1>3, Passes DEF Goto
<1>4. QED
  BY <1>2, <1>3

LEMMA ListNamespacesSeen ==
    ASSUME SInv, ListNamespaces
    PROVE  Contract!Next \/ UNCHANGED Contract!cvars
<1>1. /\ Dropping /\ phase # "idle"
      /\ UNCHANGED <<helmVars, doomed, gone>>
      /\ Finish("error") \/ (phase' = "drop" /\ UNCHANGED req)
  BY DEF ListNamespaces, dropVars, Dropping
<1>2. QED
  BY <1>1, DroppingView, FinishSeen, Passes

LEMMA DropReturnsSeen ==
    ASSUME SInv, DropReturns
    PROVE  Contract!Next \/ UNCHANGED Contract!cvars
<1>1. /\ Dropping /\ phase # "idle"
      /\ UNCHANGED <<helmVars, doomed, gone>>
      /\ Finish("error") \/ (phase' = "sweep" /\ UNCHANGED req)
  BY DEF DropReturns, NoDrop, Goto, Dropping
<1>2. QED
  BY <1>1, DroppingView, FinishSeen, Passes

LEMMA ClearHookSeen ==
    ASSUME SInv, ClearHook
    PROVE  Contract!Next \/ UNCHANGED Contract!cvars
<1>1. /\ Dropping /\ phase # "idle"
      /\ UNCHANGED <<helmVars, doomed, gone>>
      /\ Finish("error") \/ (phase' = phase /\ UNCHANGED req)
  BY DEF ClearHook, dropVars, runVars, Dropping
<1>2. QED
  BY <1>1, DroppingView, FinishSeen, Passes

(* The namespaces of the plan are in every list, and all of the list gone. *)
LEMMA HooksDoneSeen ==
    ASSUME SInv, HooksDone
    PROVE  Contract!Next
<1>1. /\ phase = "hooks" /\ Dropping /\ Finish("ok")
      /\ UNCHANGED <<helmVars, doomed, gone>>
  BY DEF HooksDone, dropVars, Dropping
<1>2. ASSUME NEW r \in Contract!Torn
      PROVE  namespace[[x \in Releases |-> x[2]][r]] = "absent"
  <2>1. PICK j \in DOMAIN plan : r = plan[j] /\ ~Skip(plan[j], req)
    BY <1>1, TornView
  <2>2. r \in Releases /\ r[2] \in gone
    BY <1>1, <2>1, PlanShape DEF SInv, DropInv, namespacesFor
  <2>3. r[2] \notin doomed
    BY <2>2 DEF SInv, RInv, DoomedInv
  <2>4. QED
    BY <2>2, <2>3 DEF namespace
<1>3. Contract!Done
  BY <1>1, <1>2, DroppingView DEF Contract!Done
<1>4. QED
  BY <1>1, <1>3, DroppingView, FinishSeen

(* A namespace is asked to go.                                             *)
LEMMA DeleteSeen ==
    ASSUME RuntimeIsApart, LabelsAreApart, SInv, NEW ns \in Namespaces, Delete(ns)
    PROVE  Contract!Next \/ UNCHANGED Contract!cvars
<1>1. /\ phase = "drop" /\ Dropping /\ ns \in list /\ ns \notin gone
      /\ doomed' = doomed \cup {ns}
      /\ UNCHANGED <<record, objects, call, result, cancelled, gone, phase, req, verdict>>
  BY DEF Delete, Dropping, helmVars, dropVars, runVars
<1>2. /\ teardown' = teardown /\ torn' = torn /\ taken' = taken /\ deleting' = deleting
      /\ interrupted' = interrupted
  BY <1>1 DEF teardown, torn, taken, deleting, AtStep, inFlight, returned,
     interrupted, Asked, Skip
<1>3. CASE ns \in doomed \/ ns \notin {r[2] : r \in Releases}
  <2>1. namespace' = namespace
    BY <1>1, <1>3 DEF namespace
  <2>2. QED
    BY <1>1, <1>2, <2>1 DEF Contract!cvars
<1>4. CASE ns \notin doomed /\ ns \in {r[2] : r \in Releases}
  <2>1. namespace[ns] = "active" /\ namespace' = [namespace EXCEPT ![ns] = "terminating"]
    BY <1>1, <1>4 DEF namespace
  <2>2. ns \in namespacesFor(req, Labelled) /\ ns \notin Ancillary
    BY <1>1, <1>4 DEF SInv, DropInv, RuntimeIsApart
  <2>3. \E j \in DOMAIN plan : ~Skip(plan[j], req) /\ ns = plan[j][2]
    <3>1. CASE ns \in Labelled
      <4>1. ns = plan[1][2] /\ ~Skip(plan[1], req)
        BY <1>4, <3>1, PlanShape, SkipShape DEF LabelsAreApart, mural
      <4>2. QED
        BY <4>1, PlanShape
    <3>2. CASE ns \notin Labelled
      BY <2>2, <3>2 DEF namespacesFor
    <3>3. QED
      BY <3>1, <3>2
  <2>4. \E r \in Contract!Torn : ns = [x \in Releases |-> x[2]][r]
    <3>1. PICK j \in DOMAIN plan : ~Skip(plan[j], req) /\ ns = plan[j][2]
      BY <2>3
    <3>2. plan[j] \in Contract!Torn /\ plan[j] \in Releases
      BY <1>1, <3>1, TornView, PlanShape
    <3>3. ns = [x \in Releases |-> x[2]][plan[j]]
      BY <3>1, <3>2
    <3>4. QED
      BY <3>2, <3>3
  <2>5. teardown = "full" => \A r \in Contract!Torn : ~Contract!Exists(r)
    BY <1>1, DroppingView, TornView, Names DEF Uninstalled
  <2>6. Contract!Doom(ns)
    BY <1>1, <1>2, <2>1, <2>4, <2>5, DroppingView DEF Contract!Doom
  <2>7. QED
    BY <1>2, <1>4, <2>6, Names DEF Contract!Next, Contract!RunStep
<1>5. QED
  BY <1>3, <1>4

(* The server removes one.                                                 *)
LEMMA VanishSeen ==
    ASSUME SInv, NEW ns \in Namespaces, Vanish(ns)
    PROVE  Contract!Next \/ UNCHANGED Contract!cvars
<1>1. /\ ns \in doomed /\ doomed' = doomed \ {ns} /\ gone' = gone \cup {ns}
      /\ UNCHANGED <<call, result, cancelled, phase, req, verdict>>
      /\ record' = [r \in Releases |-> IF r[2] = ns THEN "none" ELSE record[r]]
      /\ objects' = [r \in Releases |->
                       IF r[2] = ns THEN objects[r] \ {"namespaced"} ELSE objects[r]]
  BY DEF Vanish, Drop!Vanish, runVars
<1>2. /\ teardown' = teardown /\ torn' = torn /\ taken' = taken /\ deleting' = deleting
      /\ interrupted' = interrupted
  BY <1>1 DEF teardown, torn, taken, deleting, AtStep, inFlight, returned,
     interrupted, Asked, Skip
<1>3. CASE ns \in {r[2] : r \in Releases}
  <2>1. namespace[ns] = "terminating" /\ namespace' = [namespace EXCEPT ![ns] = "absent"]
    BY <1>1, <1>3 DEF namespace
  <2>2. Contract!Vanish(ns)
    BY <1>1, <1>2, <2>1, Names DEF Contract!Vanish
  <2>3. QED
    BY <1>2, <1>3, <2>2, Names DEF Contract!Next
<1>4. CASE ns \notin {r[2] : r \in Releases}
  <2>1. namespace' = namespace
    BY <1>1, <1>4 DEF namespace
  <2>2. record' = record /\ objects' = objects
    BY <1>1, <1>4, TypeParts DEF SInv, ClusterTyped
  <2>3. QED
    BY <1>2, <2>1, <2>2 DEF Contract!cvars
<1>5. QED
  BY <1>3, <1>4

-----------------------------------------------------------------------------
(* The theorem                                                             *)

(* What the refinement rests on is inductive.                              *)
LEMMA SeenInductive == Spec => []SInv
<1>1. Init => RInv
  BY RefinementInit
<1>2. TypeOK /\ CallInv /\ RInv /\ [Next]_vars => RInv'
  BY RefinementStep
<1>3. IInv => TypeOK /\ CallInv /\ PlanInv /\ UninstalledInv
  BY DEF IInv
<1>4. TypeOK /\ CallInv /\ PlanInv /\ UninstalledInv /\ DropInv /\ RInv => SInv
  BY DEF SInv
<1>5. QED
  BY <1>1, <1>2, <1>3, <1>4, Inductive, DropsInductive, PTL DEF Spec

(* Every step of Cleanup is one its caller is told to expect.              *)
LEMMA NextSeen ==
    ASSUME RuntimeIsApart, LabelsAreApart, SInv, [Next]_vars
    PROVE  [Contract!Next]_(Contract!cvars)
<1>1. CASE \E ns \in Namespaces : DropEnds(ns)
  <2>1. /\ phase # "idle" /\ phase' # "idle" /\ UNCHANGED <<req, helmVars, doomed, gone>>
    BY <1>1 DEF DropEnds, Drop!Dropped, runVars
  <2>2. QED
    BY <2>1, Passes
<1>2. CASE ListHooks
  <2>1. /\ phase # "idle" /\ phase' # "idle" /\ UNCHANGED <<req, helmVars, doomed, gone>>
    BY <1>2 DEF ListHooks, Goto, dropVars
  <2>2. QED
    BY <2>1, Passes
<1>3. CASE UNCHANGED vars
  <2>1. UNCHANGED <<record, objects, cancelled, doomed, gone, phase, req, verdict, call, result>>
    BY <1>3 DEF vars, helmVars, dropVars, runVars
  <2>2. teardown' = teardown /\ taken' = taken /\ deleting' = deleting
    BY <2>1 DEF teardown, taken, deleting, AtStep, inFlight, returned, interrupted
  <2>3. QED
    BY <2>1, <2>2, Unseen
<1>4. QED
  BY <1>1, <1>2, <1>3, StartSeen, CancelSeen, KillSeen, UninstallNextSeen, HelmSeen,
     UninstallReturnsSeen, UninstallsDoneSeen, ListNamespacesSeen, DeleteSeen, DropReturnsSeen,
     ClearHookSeen, HooksDoneSeen, VanishSeen DEF Next, RunStep

(* Every run of Cleanup, with its Helm calls, its parallel deletions and   *)
(* its webhooks, and whatever fails, is interrupted or is killed, does to  *)
(* the cluster what the contract says (cleaner.go:86: releases first, in   *)
(* order, then namespaces), if the runtime's namespaces are apart from the *)
(* releases' and the labels are on no release's namespace but the hub's.   *)
THEOREM CleanupImplementsContract ==
    RuntimeIsApart /\ LabelsAreApart /\ Spec => ImplementsContract
<1> SUFFICES ASSUME RuntimeIsApart, LabelsAreApart PROVE Spec => ImplementsContract
  OBVIOUS
<1>1. Init => Contract!Init
  BY ContractInit
<1>2. SInv /\ [Next]_vars => [Contract!Next]_(Contract!cvars)
  BY NextSeen
<1>3. QED
  BY <1>1, <1>2, SeenInductive, PTL DEF Spec, ImplementsContract, Contract!Spec
=============================================================================
