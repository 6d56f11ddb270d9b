----------------------- MODULE CommandDispatchProofs -----------------------
(***************************************************************************)
(* Type correctness of CommandDispatch, the order in which the executions  *)
(* of a request are sent, what an answer without an error means, the route *)
(* of a notification, and the implementation of CommandSeries.             *)
(***************************************************************************)
EXTENDS CommandDispatch, TLAPS

\* Stages of a request that has no executions yet.
Early == {"new", "device", "routeKey", "route", "key", "group", "effects"}

\* Every HTTP execution of the plan p of r before the i-th has been accepted.
Done(p, r, i, ok) ==
  \A k \in 1..(i - 1) : k \in DOMAIN p /\ p[k] = "HTTP" => <<r, k>> \in ok

\* The invariant of one request: none of its executions is sent early; the one in
\* progress is of HTTP and comes after accepted ones; and so does each one sent.
RequestInv(r) ==
  /\ stage[r] \in Early => plan[r] = <<>> /\ \A e \in sent : e[1] # r
  /\ stage[r] = "running" =>
       /\ pc[r] \in 1..Len(plan[r])
       /\ plan[r][pc[r]] = "HTTP"
       /\ Done(plan[r], r, pc[r], accepted)
  /\ stage[r] = "answered" => Done(plan[r], r, Len(plan[r]) + 1, accepted)
  /\ \A e \in sent : e[1] = r => Done(plan[r], r, e[2], accepted)

DispatchInv == TypeOK /\ \A r \in Request : RequestInv(r)

\* The executions are a sequence of bindings, as many per command as the transport has.
LEMMA ExecutionsType ==
  ASSUME NEW protocol, NEW commands \in Nat
  PROVE  Executions(protocol, commands) \in Seq(Binding)
<1> DEFINE h == Handlers(protocol)
<1>1. h \in Seq(Binding) /\ Len(h) \in {0, 1, 4}
  <2>1. CASE protocol = "none"
    <3>1. Bindings \in Seq(Binding) /\ Len(Bindings) = 4
      BY DEF Bindings, Binding
    <3> QED BY <2>1, <3>1 DEF Handlers
  <2>2. CASE protocol # "none" /\ protocol \in Binding
    <3>1. h = <<protocol>>
      BY <2>2 DEF Handlers
    <3> QED BY <2>2, <3>1
  <2>3. CASE protocol # "none" /\ protocol \notin Binding
    <3>1. h = <<>>
      BY <2>3 DEF Handlers
    <3> QED BY <3>1
  <2> QED BY <2>1, <2>2, <2>3
<1>2. commands * Len(h) \in Nat
  BY <1>1
<1>3. ASSUME NEW k \in 1..(commands * Len(h))
      PROVE  h[((k - 1) % Len(h)) + 1] \in Binding
  <2>1. CASE Len(h) = 0
    <3>1. commands * Len(h) = 0
      BY <2>1
    <3> QED BY <3>1
  <2>2. CASE Len(h) # 0
    <3>1. (k - 1) % Len(h) \in 0..(Len(h) - 1)
      BY <1>1, <1>2, <2>2
    <3>2. ((k - 1) % Len(h)) + 1 \in 1..Len(h)
      BY <1>1, <3>1
    <3> QED BY <1>1, <3>2
  <2> QED BY <2>1, <2>2
<1>4. [k \in 1..(commands * Len(h)) |-> h[((k - 1) % Len(h)) + 1]] \in Seq(Binding)
  BY <1>2, <1>3
<1> QED BY <1>4 DEF Executions

\* A part of the series of r, from its i-th execution on, keeps the invariant when the
\* executions before the i-th are accepted by then.  (async.series)
LEMMA AdvanceKeeps ==
  ASSUME TypeOK, NEW r \in Request, NEW p \in Seq(Binding), NEW i \in 1..(Len(p) + 1),
         Advance(r, p, i),
         plan' = [plan EXCEPT ![r] = p],
         accepted \subseteq accepted',
         Done(p, r, i, accepted'),
         \A e \in sent : e[1] = r => Done(p, r, e[2], accepted'),
         \A s \in Request \ {r} : RequestInv(s)
  PROVE  /\ stage' \in [Request -> Stage]
         /\ pc' \in [Request -> Nat]
         /\ sent' \in SUBSET Execution
         /\ process' \in {"up", "crashed"}
         /\ \A s \in Request : RequestInv(s)'
<1>1. PICK j \in i..(Len(p) + 1) :
        /\ j <= Len(p) => p[j] = "HTTP"
        /\ \A k \in i..(j - 1) : p[k] # "HTTP"
        /\ sent' = sent \union
             {<<r, k>> : k \in {k \in i..j : /\ k <= Len(p)
                                             /\ Reaches(p[k])
                                             /\ \A l \in i..k : ~ Throws(p[l])}}
        /\ IF \E k \in i..(j - 1) : Throws(p[k])
           THEN /\ process' = "crashed"
                /\ stage' = [stage EXCEPT ![r] = "lost"]
           ELSE /\ stage' = [stage EXCEPT ![r] = IF j <= Len(p) THEN "running" ELSE "answered"]
                /\ UNCHANGED process
        /\ pc' = [pc EXCEPT ![r] = j]
  BY DEF Advance
<1>2. Len(p) \in Nat /\ DOMAIN p = 1..Len(p)
  OBVIOUS
<1>3. j \in Nat \ {0}
  BY <1>1, <1>2
<1>4. stage' \in [Request -> Stage] /\ pc' \in [Request -> Nat] /\ process' \in {"up", "crashed"}
  BY <1>1, <1>3 DEF TypeOK, Stage
<1>5. sent' \in SUBSET Execution
  <2>1. \A k \in i..j : <<r, k>> \in Execution
    BY <1>2, <1>3 DEF Execution
  <2> QED BY <1>1, <2>1 DEF TypeOK
<1>6. \A e \in sent' : e \in sent \/ \E k \in i..j : e = <<r, k>>
  BY <1>1
<1>7. \A k \in i..j : Done(p, r, k, accepted')
  BY <1>1, <1>2, <1>3 DEF Done
<1>8. plan'[r] = p /\ \A s \in Request \ {r} : plan'[s] = plan[s]
  BY DEF TypeOK
<1>9. stage'[r] \in {"lost", "running", "answered"} /\ pc'[r] = j
  BY <1>1 DEF TypeOK
<1>10. RequestInv(r)'
  <2>1. stage'[r] \notin Early
    BY <1>9 DEF Early
  <2>2. stage'[r] = "running" => j <= Len(p) /\ p[j] = "HTTP"
    BY <1>1 DEF TypeOK
  <2>3. stage'[r] = "answered" => j = Len(p) + 1
    BY <1>1, <1>2, <1>3 DEF TypeOK
  <2>4. \A e \in sent' : e[1] = r => Done(p, r, e[2], accepted')
    BY <1>6, <1>7
  <2>5. j \in i..j
    BY <1>1, <1>2, <1>3
  <2>6. Done(p, r, j, accepted')
    BY <1>7, <2>5
  <2> QED BY <1>2, <1>3, <1>8, <1>9, <2>1, <2>2, <2>3, <2>4, <2>6 DEF RequestInv
<1>11. ASSUME NEW s \in Request \ {r} PROVE RequestInv(s)'
  <2>1. stage'[s] = stage[s] /\ pc'[s] = pc[s] /\ plan'[s] = plan[s]
    BY <1>1, <1>8 DEF TypeOK
  <2>2. \A e \in sent' : e[1] = s => e \in sent
    BY <1>6
  <2>3. \A q, k : Done(q, s, k, accepted) => Done(q, s, k, accepted')
    BY DEF Done
  <2> QED BY <2>1, <2>2, <2>3 DEF RequestInv
<1> QED BY <1>4, <1>5, <1>10, <1>11

\* The executions of a request start: nothing of it has been sent before.
LEMMA ExecuteKeeps ==
  ASSUME TypeOK, NEW r \in Request, NEW known,
         stage[r] \in Early,
         \A s \in Request : RequestInv(s),
         Execute(r, known),
         UNCHANGED accepted
  PROVE  /\ stage' \in [Request -> Stage]
         /\ plan' \in [Request -> Seq(Binding)]
         /\ pc' \in [Request -> Nat]
         /\ sent' \in SUBSET Execution
         /\ process' \in {"up", "crashed"}
         /\ \A s \in Request : RequestInv(s)'
<1> DEFINE p == Executions(ExecutionTransport(known), Size[r])
<1>1. p \in Seq(Binding)
  BY ExecutionsType, CommandDispatchAssumption
<1>2. plan' = [plan EXCEPT ![r] = p] /\ Advance(r, p, 1)
  BY DEF Execute
<1>3. 1 \in 1..(Len(p) + 1)
  BY <1>1
<1>4. Done(p, r, 1, accepted')
  BY DEF Done
<1>5. \A e \in sent : e[1] # r
  BY DEF RequestInv
<1> HIDE DEF p
<1>6. /\ stage' \in [Request -> Stage]
      /\ pc' \in [Request -> Nat]
      /\ sent' \in SUBSET Execution
      /\ process' \in {"up", "crashed"}
      /\ \A s \in Request : RequestInv(s)'
  BY <1>1, <1>2, <1>3, <1>4, <1>5, AdvanceKeeps
<1>7. plan' \in [Request -> Seq(Binding)]
  BY <1>1, <1>2 DEF TypeOK
<1> QED BY <1>6, <1>7

\* A step of the handler of r that neither executes nor answers anything keeps the
\* invariant of every request.
LEMMA GoesKeeps ==
  ASSUME TypeOK, NEW r \in Request, NEW from, NEW to,
         Goes(r, from, to),
         to \in Stage \ {"running"},
         to \in Early \union {"answered"} => from \in Early,
         UNCHANGED <<running, accepted>>,
         \A s \in Request : RequestInv(s)
  PROVE  stage' \in [Request -> Stage] /\ \A s \in Request : RequestInv(s)'
<1>1. stage[r] = from /\ stage' = [stage EXCEPT ![r] = to]
  BY DEF Goes
<1>2. stage' \in [Request -> Stage]
  BY <1>1 DEF TypeOK
<1>3. UNCHANGED <<plan, pc, sent, accepted>>
  BY DEF running
<1>4. RequestInv(r)'
  <2>1. stage'[r] = to
    BY <1>1 DEF TypeOK
  <2>2. to = "answered" => plan[r] = <<>>
    BY <1>1 DEF RequestInv
  <2>3. Done(<<>>, r, Len(<<>>) + 1, accepted)
    BY DEF Done
  <2> QED BY <1>1, <1>3, <2>1, <2>2, <2>3 DEF RequestInv
<1>5. ASSUME NEW s \in Request \ {r} PROVE RequestInv(s)'
  <2>1. stage'[s] = stage[s]
    BY <1>1 DEF TypeOK
  <2> QED BY <1>3, <2>1 DEF RequestInv
<1> QED BY <1>2, <1>4, <1>5

\* The invariant holds initially and every step preserves it.
LEMMA DispatchInvariant == Spec => []DispatchInv
<1>1. Init => DispatchInv
  <2> SUFFICES ASSUME Init PROVE DispatchInv
    OBVIOUS
  <2>1. \A r \in Request : stage[r] = "new" /\ plan[r] = <<>>
    BY DEF Init
  <2>2. TypeOK
    <3>1. <<>> \in Seq(Binding)
      OBVIOUS
    <3>2. plan \in [Request -> Seq(Binding)]
      BY <3>1 DEF Init
    <3> QED BY <3>2 DEF Init, TypeOK, Stage, Known
  <2>3. \A r \in Request : RequestInv(r)
    BY <2>1 DEF Init, RequestInv
  <2> QED BY <2>2, <2>3 DEF DispatchInv
<1>2. DispatchInv /\ [Next]_vars => DispatchInv'
  <2> SUFFICES ASSUME DispatchInv, [Next]_vars PROVE DispatchInv'
    OBVIOUS
  <2> USE DEF DispatchInv
  <2>1. ASSUME NEW r \in Request,
               Receive(r) \/ GetDevice(r) \/ RouteKey(r) \/ EffectiveApiKey(r) \/ HttpRefused(r)
        PROVE  DispatchInv'
    <3>1. PICK from, to :
            /\ Goes(r, from, to)
            /\ to \in Stage \ {"running", "answered"}
            /\ to \in Early => from \in Early
      BY <2>1 DEF Receive, GetDevice, RouteKey, EffectiveApiKey, HttpRefused, Stage, Early
    <3>2. UNCHANGED <<conf, routed, found, running, outcome, links>>
      BY <2>1 DEF Receive, GetDevice, RouteKey, EffectiveApiKey, HttpRefused
    <3>3. UNCHANGED <<running, accepted>>
      BY <3>2 DEF outcome
    <3>4. stage' \in [Request -> Stage] /\ \A s \in Request : RequestInv(s)'
      BY <3>1, <3>3, GoesKeeps
    <3> QED BY <3>2, <3>4 DEF TypeOK, running, outcome, links
  <2>2. ASSUME NEW r \in Request, Route(r) PROVE DispatchInv'
    <3>1. PICK known \in {"yes", "no"} :
            /\ routed' = [routed EXCEPT ![r] = known]
            /\ Goes(r, "route", IF Transport(known) \in {"HTTP", "none"} THEN "key" ELSE "answered")
      BY <2>2 DEF Route
    <3>2. PICK to \in {"key", "answered"} : Goes(r, "route", to)
      BY <3>1
    <3>3. UNCHANGED <<conf, found, running, outcome, links>>
      BY <2>2 DEF Route
    <3>4. UNCHANGED <<running, accepted>>
      BY <3>3 DEF outcome
    <3>5. to \in Stage \ {"running"} /\ "route" \in Early
      BY DEF Stage, Early
    <3>6. stage' \in [Request -> Stage] /\ \A s \in Request : RequestInv(s)'
      BY <3>2, <3>4, <3>5, GoesKeeps
    <3>7. routed' \in [Request -> Known]
      BY <3>1 DEF TypeOK, Known
    <3> QED BY <3>3, <3>6, <3>7 DEF TypeOK, running, outcome, links
  <2>3. ASSUME NEW r \in Request, FindGroup(r) PROVE DispatchInv'
    <3>1. PICK known \in {"yes", "no"} :
            /\ found' = [found EXCEPT ![r] = known]
            /\ \/ Execute(r, known)
               \/ Goes(r, "group", "effects") /\ UNCHANGED running
      BY <2>3 DEF FindGroup
    <3>2. stage[r] = "group" /\ UNCHANGED <<conf, routed, outcome, links>>
      BY <2>3 DEF FindGroup
    <3>3. UNCHANGED accepted /\ "group" \in Early
      BY <3>2 DEF outcome, Early
    <3>4. found' \in [Request -> Known]
      BY <3>1 DEF TypeOK, Known
    <3>5. CASE Execute(r, known)
      <4>1. /\ stage' \in [Request -> Stage]
            /\ plan' \in [Request -> Seq(Binding)]
            /\ pc' \in [Request -> Nat]
            /\ sent' \in SUBSET Execution
            /\ process' \in {"up", "crashed"}
            /\ \A s \in Request : RequestInv(s)'
        BY <3>2, <3>3, <3>5, ExecuteKeeps
      <4> QED BY <3>2, <3>4, <4>1 DEF TypeOK, outcome, links
    <3>6. CASE Goes(r, "group", "effects") /\ UNCHANGED running
      <4>1. "effects" \in Stage \ {"running"}
        BY DEF Stage
      <4>2. stage' \in [Request -> Stage] /\ \A s \in Request : RequestInv(s)'
        BY <3>3, <3>6, <4>1, GoesKeeps
      <4> QED BY <3>2, <3>4, <3>6, <4>2 DEF TypeOK, running, outcome, links
    <3> QED BY <3>1, <3>5, <3>6
  <2>4. ASSUME NEW r \in Request, SideEffects(r) PROVE DispatchInv'
    <3>1. stage[r] = "effects" /\ UNCHANGED <<conf, routed, found, outcome, links>>
      BY <2>4 DEF SideEffects
    <3>2. UNCHANGED accepted /\ "effects" \in Early
      BY <3>1 DEF outcome, Early
    <3>3. CASE Execute(r, found[r])
      <4>1. /\ stage' \in [Request -> Stage]
            /\ plan' \in [Request -> Seq(Binding)]
            /\ pc' \in [Request -> Nat]
            /\ sent' \in SUBSET Execution
            /\ process' \in {"up", "crashed"}
            /\ \A s \in Request : RequestInv(s)'
        BY <3>1, <3>2, <3>3, ExecuteKeeps
      <4> QED BY <3>1, <4>1 DEF TypeOK, outcome, links
    <3>4. CASE Goes(r, "effects", "parked") /\ UNCHANGED running
      <4>1. "parked" \in Stage \ {"running"} /\ "parked" \notin Early \union {"answered"}
        BY DEF Stage, Early
      <4>2. stage' \in [Request -> Stage] /\ \A s \in Request : RequestInv(s)'
        BY <3>2, <3>4, <4>1, GoesKeeps
      <4> QED BY <3>1, <3>4, <4>2 DEF TypeOK, running, outcome, links
    <3> QED BY <2>4, <3>3, <3>4 DEF SideEffects
  <2>5. ASSUME NEW r \in Request, HttpAccepted(r) PROVE DispatchInv'
    <3> DEFINE p == plan[r]
    <3>1. /\ stage[r] = "running"
          /\ accepted' = accepted \union {<<r, pc[r]>>}
          /\ results' = IF HasKey(r) THEN results \union {<<r, pc[r]>>} ELSE results
          /\ Advance(r, p, pc[r] + 1)
          /\ UNCHANGED <<conf, routed, found, plan, written, links>>
      BY <2>5 DEF HttpAccepted
    <3>2. /\ pc[r] \in 1..Len(p)
          /\ Done(p, r, pc[r], accepted)
          /\ \A e \in sent : e[1] = r => Done(p, r, e[2], accepted)
      BY <3>1 DEF RequestInv
    <3>3. p \in Seq(Binding) /\ Len(p) \in Nat
      BY DEF TypeOK
    <3>4. pc[r] + 1 \in 1..(Len(p) + 1) /\ pc[r] \in Nat \ {0}
      BY <3>2, <3>3
    <3>5. <<r, pc[r]>> \in Execution
      BY <3>4 DEF Execution
    <3>6. accepted' \in SUBSET Execution /\ results' \in SUBSET Execution
      BY <3>1, <3>5 DEF TypeOK
    <3>7. accepted \subseteq accepted' /\ <<r, pc[r]>> \in accepted'
      BY <3>1
    <3>8. Done(p, r, pc[r] + 1, accepted')
      <4>1. \A k \in 1..((pc[r] + 1) - 1) : k \in 1..(pc[r] - 1) \/ k = pc[r]
        BY <3>4
      <4> QED BY <3>2, <3>7, <4>1 DEF Done
    <3>9. \A e \in sent : e[1] = r => Done(p, r, e[2], accepted')
      BY <3>2, <3>7 DEF Done
    <3>10. plan' = [plan EXCEPT ![r] = p]
      BY <3>1 DEF TypeOK
    <3>11. /\ stage' \in [Request -> Stage]
           /\ pc' \in [Request -> Nat]
           /\ sent' \in SUBSET Execution
           /\ process' \in {"up", "crashed"}
           /\ \A s \in Request : RequestInv(s)'
      <4> HIDE DEF p
      <4> QED BY <3>1, <3>3, <3>4, <3>7, <3>8, <3>9, <3>10, AdvanceKeeps
    <3> QED BY <3>1, <3>6, <3>11 DEF TypeOK, links
  <2>6. ASSUME NEW e \in results, WriteResult(e) PROVE DispatchInv'
    <3>1. UNCHANGED <<conf, stage, routed, found, plan, pc, sent, process, accepted, links>>
      BY <2>6 DEF WriteResult, progress, running
    <3>2. results' \in SUBSET Execution /\ written' \in SUBSET Execution
      BY <2>6 DEF WriteResult, TypeOK
    <3> QED BY <3>1, <3>2 DEF TypeOK, links, RequestInv
  <2>7. CASE MqttChanges \/ AmqpChanges
    <3>1. UNCHANGED <<conf, progress, running, outcome>>
      BY <2>7 DEF MqttChanges, AmqpChanges
    <3>2. mqtt' \in {"none", "down", "up"} /\ amqp' \in {"none", "up"}
      BY <2>7 DEF MqttChanges, AmqpChanges, TypeOK
    <3> QED BY <3>1, <3>2 DEF TypeOK, progress, running, outcome, RequestInv
  <2>8. CASE UNCHANGED vars
    BY <2>8 DEF TypeOK, vars, progress, running, outcome, links, RequestInv
  <2> QED BY <2>1, <2>2, <2>3, <2>4, <2>5, <2>6, <2>7, <2>8 DEF Next
<1> QED BY <1>1, <1>2, PTL DEF Spec

\* Type correctness: each execution of a request is one of a binding, whatever the
\* device, the group and the configuration say.
THEOREM TypeCorrect == Spec => []TypeOK
<1>1. DispatchInv => TypeOK
  BY DEF DispatchInv
<1> QED BY <1>1, DispatchInvariant, PTL

\* The commands of a request leave one after the other, and none after a refusal.
\* (async.series of commandHandler)
THEOREM SeriesInOrder == Spec => []InOrder
<1>1. DispatchInv => InOrder
  <2> SUFFICES ASSUME DispatchInv, NEW e \in sent PROVE
        \A k \in 1..(e[2] - 1) : Http(e[1], k) => <<e[1], k>> \in accepted
    BY DEF InOrder
  <2>1. e[1] \in Request
    BY DEF DispatchInv, TypeOK, Execution
  <2>2. Done(plan[e[1]], e[1], e[2], accepted)
    BY <2>1 DEF DispatchInv, RequestInv
  <2> QED BY <2>2 DEF Done, Http
<1> QED BY <1>1, DispatchInvariant, PTL

\* A request is answered without an error only if the endpoint accepted every one of
\* its HTTP executions.  (executeCommand of the HTTP binding)
THEOREM SuccessIsEarned == Spec => []AnsweredMeansAccepted
<1>1. DispatchInv => AnsweredMeansAccepted
  <2> SUFFICES ASSUME DispatchInv, NEW r \in Request, stage[r] = "answered",
                      NEW k \in DOMAIN plan[r], Http(r, k)
               PROVE  <<r, k>> \in accepted
    BY DEF AnsweredMeansAccepted
  <2>1. Done(plan[r], r, Len(plan[r]) + 1, accepted)
    BY DEF DispatchInv, RequestInv
  <2>2. plan[r] \in Seq(Binding) /\ DOMAIN plan[r] = 1..Len(plan[r]) /\ Len(plan[r]) \in Nat
    BY DEF DispatchInv, TypeOK
  <2>3. k \in 1..((Len(plan[r]) + 1) - 1)
    BY <2>2
  <2> QED BY <2>1, <2>3 DEF Done, Http
<1> QED BY <1>1, DispatchInvariant, PTL

-----------------------------------------------------------------------------
(* The route of a notification.                                            *)

\* The look-up that routed the notification of r, and the executions of a plan that
\* the other look-up gave.
RoutedByHttp(r) == Transport(routed[r]) \in {"HTTP", "none"}
PlanAsFound(r) == plan[r] = Executions(Transport(found[r]), Size[r])

RouteInv(r) ==
  Origin[r] = "notification" =>
    /\ stage[r] # "device"
    /\ stage[r] \in {"key", "group", "effects", "running"} => RoutedByHttp(r)
    /\ stage[r] = "running" => PlanAsFound(r)
    /\ \A e \in sent : e[1] = r => RoutedByHttp(r) /\ PlanAsFound(r) /\ e[2] \in DOMAIN plan[r]

\* With the transport of HTTP every execution is one of HTTP.
LEMMA HttpOnly ==
  ASSUME NEW commands \in Nat, NEW k \in DOMAIN Executions("HTTP", commands)
  PROVE  Executions("HTTP", commands)[k] = "HTTP"
<1>1. Handlers("HTTP") = <<"HTTP">> /\ Len(Handlers("HTTP")) = 1
  BY DEF Handlers, Binding
<1>2. Executions("HTTP", commands) =
        [j \in 1..(commands * 1) |-> <<"HTTP">>[((j - 1) % 1) + 1]]
  BY <1>1 DEF Executions
<1>3. k \in 1..(commands * 1)
  BY <1>2
<1>4. (k - 1) % 1 = 0
  BY <1>3
<1> QED BY <1>2, <1>3, <1>4

\* What a part of the series of r sends is of its plan, and the other requests are not
\* affected.
LEMMA AdvanceSends ==
  ASSUME TypeOK, NEW r \in Request, NEW p \in Seq(Binding), NEW i \in 1..(Len(p) + 1),
         Advance(r, p, i)
  PROVE  /\ \A e \in sent' : e \in sent \/ (e[1] = r /\ e[2] \in DOMAIN p)
         /\ \A s \in Request \ {r} : stage'[s] = stage[s]
         /\ stage'[r] \in {"lost", "running", "answered"}
<1>1. PICK j \in i..(Len(p) + 1) :
        /\ sent' = sent \union
             {<<r, k>> : k \in {k \in i..j : /\ k <= Len(p)
                                             /\ Reaches(p[k])
                                             /\ \A l \in i..k : ~ Throws(p[l])}}
        /\ \/ stage' = [stage EXCEPT ![r] = "lost"]
           \/ stage' = [stage EXCEPT ![r] = IF j <= Len(p) THEN "running" ELSE "answered"]
  BY DEF Advance
<1>2. \A e \in sent' : e \in sent \/ \E k \in i..j : k <= Len(p) /\ e = <<r, k>>
  BY <1>1
<1>3. \A k \in i..j : k <= Len(p) => k \in DOMAIN p
  BY <1>1
<1>4. \A e \in sent' : e \in sent \/ (e[1] = r /\ e[2] \in DOMAIN p)
  BY <1>2, <1>3
<1> QED BY <1>1, <1>4 DEF TypeOK

\* Executing the plan of one request leaves the route of the others as it was.
LEMMA AdvanceRoutes ==
  ASSUME TypeOK, NEW r \in Request, NEW p \in Seq(Binding), NEW i \in 1..(Len(p) + 1),
         Advance(r, p, i),
         plan' = [plan EXCEPT ![r] = p],
         \A e \in sent : e[1] = r => p = plan[r],
         UNCHANGED <<conf, routed>>,
         \A s \in Request \ {r} : found'[s] = found[s],
         \A s \in Request : RouteInv(s),
         Origin[r] = "notification" => RoutedByHttp(r) /\ p = Executions(Transport(found[r])', Size[r])
  PROVE  \A s \in Request : RouteInv(s)'
<1>1. /\ \A e \in sent' : e \in sent \/ (e[1] = r /\ e[2] \in DOMAIN p)
      /\ \A s \in Request \ {r} : stage'[s] = stage[s]
      /\ stage'[r] \in {"lost", "running", "answered"}
  BY AdvanceSends
<1>2. plan'[r] = p /\ \A s \in Request \ {r} : plan'[s] = plan[s]
  BY DEF TypeOK
<1>3. \A known : Transport(known)' = Transport(known)
  BY DEF Transport
<1>4. ASSUME NEW s \in Request \ {r} PROVE RouteInv(s)'
  <2>1. \A e \in sent' : e[1] = s => e \in sent
    BY <1>1
  <2>2. (RoutedByHttp(s)' <=> RoutedByHttp(s)) /\ (PlanAsFound(s)' <=> PlanAsFound(s))
    BY <1>2, <1>3 DEF RoutedByHttp, PlanAsFound, Transport
  <2> QED BY <1>1, <1>2, <2>1, <2>2 DEF RouteInv
<1>5. RouteInv(r)'
  <2> SUFFICES ASSUME Origin[r] = "notification" PROVE RouteInv(r)'
    BY DEF RouteInv
  <2>1. RoutedByHttp(r)' /\ PlanAsFound(r)'
    BY <1>2, <1>3 DEF RoutedByHttp, PlanAsFound, Transport
  <2>2. ASSUME NEW e \in sent, e[1] = r PROVE e[2] \in DOMAIN plan'[r]
    <3>1. RouteInv(r) /\ p = plan[r]
      BY <2>2
    <3>2. e[2] \in DOMAIN plan[r]
      BY <2>2, <3>1 DEF RouteInv
    <3> QED BY <1>2, <3>1, <3>2
  <2>3. \A e \in sent' : e[1] = r => e[2] \in DOMAIN plan'[r]
    BY <1>1, <1>2, <2>2
  <2>4. \A e \in sent' : e[1] = r => RoutedByHttp(r)' /\ PlanAsFound(r)' /\ e[2] \in DOMAIN plan'[r]
    BY <2>1, <2>3
  <2>5. stage'[r] # "device"
    BY <1>1
  <2> HIDE DEF RoutedByHttp, PlanAsFound
  <2> QED BY <2>1, <2>4, <2>5 DEF RouteInv
<1> QED BY <1>4, <1>5

\* A step that sends nothing and leaves the look-ups of r as they are, unless the step
\* is the one that makes the route.
LEMMA GoesRoutes ==
  ASSUME TypeOK, NEW r \in Request, NEW from, NEW to,
         Goes(r, from, to),
         UNCHANGED <<conf, running>>,
         \A s \in Request \ {r} : found'[s] = found[s] /\ routed'[s] = routed[s],
         \A s \in Request : RouteInv(s),
         \A e \in sent : e[1] = r => found'[r] = found[r] /\ routed'[r] = routed[r],
         to # "running",
         Origin[r] = "notification" => to # "device",
         Origin[r] = "notification" /\ to \in {"key", "group", "effects"} => RoutedByHttp(r)'
  PROVE  \A s \in Request : RouteInv(s)'
<1>1. stage'[r] = to /\ \A s \in Request \ {r} : stage'[s] = stage[s]
  BY DEF Goes, TypeOK
<1>2. UNCHANGED <<conf, plan, sent>>
  BY DEF running
<1>3. ASSUME NEW s \in Request, found'[s] = found[s], routed'[s] = routed[s]
      PROVE  (RoutedByHttp(s)' <=> RoutedByHttp(s)) /\ (PlanAsFound(s)' <=> PlanAsFound(s))
  BY <1>2, <1>3 DEF RoutedByHttp, PlanAsFound, Transport
<1>4. ASSUME NEW s \in Request \ {r} PROVE RouteInv(s)'
  <2>1. stage'[s] = stage[s]
    BY <1>1
  <2>2. (RoutedByHttp(s)' <=> RoutedByHttp(s)) /\ (PlanAsFound(s)' <=> PlanAsFound(s))
    BY <1>3
  <2> QED BY <1>2, <2>1, <2>2 DEF RouteInv
<1>5. RouteInv(r)'
  <2>1. \A e \in sent : e[1] = r =>
           (RoutedByHttp(r)' <=> RoutedByHttp(r)) /\ (PlanAsFound(r)' <=> PlanAsFound(r))
    BY <1>3
  <2>2. Origin[r] = "notification" =>
           \A e \in sent : e[1] = r => RoutedByHttp(r)' /\ PlanAsFound(r)' /\ e[2] \in DOMAIN plan[r]
    BY <2>1 DEF RouteInv
  <2>3. Origin[r] = "notification" /\ stage'[r] \in {"key", "group", "effects", "running"} =>
           RoutedByHttp(r)'
    BY <1>1
  <2> HIDE DEF RoutedByHttp, PlanAsFound
  <2> QED BY <1>1, <1>2, <2>2, <2>3 DEF RouteInv
<1> QED BY <1>4, <1>5

\* The executions of a request start as the look-up of their handler says.
LEMMA ExecuteRoutes ==
  ASSUME TypeOK, NEW r \in Request, NEW known,
         stage[r] \in {"group", "effects"},
         RequestInv(r),
         Execute(r, known),
         UNCHANGED <<conf, routed>>,
         found'[r] = known,
         \A s \in Request \ {r} : found'[s] = found[s],
         \A s \in Request : RouteInv(s)
  PROVE  \A s \in Request : RouteInv(s)'
<1> DEFINE p == Executions(Transport(known), Size[r])
<1>1. p \in Seq(Binding)
  BY ExecutionsType, CommandDispatchAssumption
<1>2. plan' = [plan EXCEPT ![r] = p] /\ Advance(r, p, 1)
  BY DEF Execute, ExecutionTransport
<1>3. 1 \in 1..(Len(p) + 1)
  BY <1>1
<1>4. \A e \in sent : e[1] # r
  BY DEF RequestInv, Early
<1>5. Origin[r] = "notification" => RoutedByHttp(r)
  BY DEF RouteInv
<1>6. p = Executions(Transport(found[r])', Size[r])
  BY DEF Transport
<1> HIDE DEF p
<1>7. Origin[r] = "notification" => RoutedByHttp(r) /\ p = Executions(Transport(found[r])', Size[r])
  BY <1>5, <1>6
<1>8. \A e \in sent : e[1] = r => p = plan[r]
  BY <1>4
<1> QED BY <1>1, <1>2, <1>3, <1>7, <1>8, AdvanceRoutes

\* The notifications that are executed were routed to HTTP, and their executions are
\* those of the transport their own look-up gave.
LEMMA RouteInvariant == Spec => [](\A r \in Request : RouteInv(r))
<1>1. Init => \A r \in Request : RouteInv(r)
  BY DEF Init, RouteInv
<1>2. DispatchInv /\ (\A r \in Request : RouteInv(r)) /\ [Next]_vars
        => (\A r \in Request : RouteInv(r))'
  <2> SUFFICES ASSUME TypeOK, \A r \in Request : RequestInv(r), \A r \in Request : RouteInv(r),
                      [Next]_vars
               PROVE  \A r \in Request : RouteInv(r)'
    BY DEF DispatchInv
  <2>1. ASSUME NEW r \in Request,
               Receive(r) \/ GetDevice(r) \/ RouteKey(r) \/ EffectiveApiKey(r) \/ HttpRefused(r)
        PROVE  \A s \in Request : RouteInv(s)'
    <3>1. RouteInv(r)
      OBVIOUS
    <3>2. UNCHANGED <<conf, routed, found, running>>
      BY <2>1 DEF Receive, GetDevice, RouteKey, EffectiveApiKey, HttpRefused
    <3>3. PICK from, to :
            /\ Goes(r, from, to)
            /\ to # "running"
            /\ Origin[r] = "notification" => to # "device"
            /\ Origin[r] = "notification" /\ to \in {"key", "group", "effects"} =>
                 from \in {"device", "key"}
      BY <2>1 DEF Receive, GetDevice, RouteKey, EffectiveApiKey, HttpRefused
    <3>4. Origin[r] = "notification" /\ to \in {"key", "group", "effects"} => RoutedByHttp(r)'
      BY <3>1, <3>2, <3>3 DEF Goes, RouteInv, RoutedByHttp, Transport
    <3> QED BY <3>2, <3>3, <3>4, GoesRoutes
  <2>2. ASSUME NEW r \in Request, Route(r) PROVE \A s \in Request : RouteInv(s)'
    <3>1. PICK known \in {"yes", "no"} :
            /\ routed' = [routed EXCEPT ![r] = known]
            /\ Goes(r, "route", IF Transport(known) \in {"HTTP", "none"} THEN "key" ELSE "answered")
      BY <2>2 DEF Route
    <3>2. UNCHANGED <<conf, found, running>>
      BY <2>2 DEF Route
    <3>3. PICK to : /\ Goes(r, "route", to)
                    /\ to \in {"key", "answered"}
                    /\ to = "key" => Transport(known) \in {"HTTP", "none"}
      BY <3>1
    <3>4. stage[r] = "route"
      BY <3>1 DEF Goes
    <3>5. \A e \in sent : e[1] # r
      BY <3>4 DEF RequestInv, Early
    <3>6. routed'[r] = known /\ \A s \in Request \ {r} : routed'[s] = routed[s]
      BY <3>1 DEF TypeOK
    <3>7. to = "key" => RoutedByHttp(r)'
      BY <3>2, <3>3, <3>6 DEF RoutedByHttp, Transport
    <3> QED BY <3>2, <3>3, <3>5, <3>6, <3>7, GoesRoutes
  <2>3. ASSUME NEW r \in Request, FindGroup(r) PROVE \A s \in Request : RouteInv(s)'
    <3>1. PICK known \in {"yes", "no"} :
            /\ found' = [found EXCEPT ![r] = known]
            /\ \/ Execute(r, known)
               \/ Goes(r, "group", "effects") /\ UNCHANGED running
      BY <2>3 DEF FindGroup
    <3>2. stage[r] = "group" /\ UNCHANGED <<conf, routed, outcome>>
      BY <2>3 DEF FindGroup
    <3>3. found'[r] = known /\ \A s \in Request \ {r} : found'[s] = found[s]
      BY <3>1 DEF TypeOK
    <3>4. RequestInv(r) /\ RouteInv(r)
      OBVIOUS
    <3>5. CASE Execute(r, known)
      BY <3>2, <3>3, <3>4, <3>5, ExecuteRoutes
    <3>6. CASE Goes(r, "group", "effects") /\ UNCHANGED running
      <4>1. \A e \in sent : e[1] # r
        BY <3>2, <3>4 DEF RequestInv, Early
      <4>2. Origin[r] = "notification" => RoutedByHttp(r)'
        BY <3>2, <3>4 DEF RouteInv, RoutedByHttp, Transport
      <4> QED BY <3>2, <3>3, <3>6, <4>1, <4>2, GoesRoutes
    <3> QED BY <3>1, <3>5, <3>6
  <2>4. ASSUME NEW r \in Request, SideEffects(r) PROVE \A s \in Request : RouteInv(s)'
    <3>1. stage[r] = "effects" /\ UNCHANGED <<conf, routed, found>>
      BY <2>4 DEF SideEffects
    <3>2. RequestInv(r) /\ RouteInv(r)
      OBVIOUS
    <3>3. CASE Execute(r, found[r])
      BY <3>1, <3>2, <3>3, ExecuteRoutes
    <3>4. CASE Goes(r, "effects", "parked") /\ UNCHANGED running
      BY <3>1, <3>4, GoesRoutes
    <3> QED BY <2>4, <3>3, <3>4 DEF SideEffects
  <2>5. ASSUME NEW r \in Request, HttpAccepted(r) PROVE \A s \in Request : RouteInv(s)'
    <3> DEFINE p == plan[r]
    <3>1. /\ stage[r] = "running"
          /\ Advance(r, p, pc[r] + 1)
          /\ UNCHANGED <<conf, routed, found, plan>>
      BY <2>5 DEF HttpAccepted
    <3>2. RequestInv(r) /\ RouteInv(r)
      OBVIOUS
    <3>3. p \in Seq(Binding) /\ Len(p) \in Nat
      BY DEF TypeOK
    <3>4. pc[r] + 1 \in 1..(Len(p) + 1)
      BY <3>1, <3>2, <3>3 DEF RequestInv
    <3>5. plan' = [plan EXCEPT ![r] = p]
      BY <3>1 DEF TypeOK
    <3>6. Origin[r] = "notification" =>
            RoutedByHttp(r) /\ p = Executions(Transport(found[r])', Size[r])
      BY <3>1, <3>2 DEF RouteInv, PlanAsFound, Transport
    <3>7. \A e \in sent : e[1] = r => p = plan[r]
      OBVIOUS
    <3> HIDE DEF p
    <3> QED BY <3>1, <3>3, <3>4, <3>5, <3>6, <3>7, AdvanceRoutes
  <2>6. ASSUME NEW e \in results, WriteResult(e) PROVE \A s \in Request : RouteInv(s)'
    BY <2>6 DEF WriteResult, progress, running, RouteInv, RoutedByHttp, PlanAsFound, Transport
  <2>7. CASE MqttChanges \/ AmqpChanges
    BY <2>7 DEF MqttChanges, AmqpChanges, progress, running, RouteInv, RoutedByHttp,
                PlanAsFound, Transport
  <2>8. CASE UNCHANGED vars
    BY <2>8 DEF vars, progress, running, RouteInv, RoutedByHttp, PlanAsFound, Transport
  <2> QED BY <2>1, <2>2, <2>3, <2>4, <2>5, <2>6, <2>7, <2>8 DEF Next
<1> QED BY <1>1, <1>2, DispatchInvariant, PTL DEF Spec

\* A notified command leaves by the HTTP binding that took it, but for a device without
\* a transport.  (notificationHandler of iotagent-json and of the HTTP binding)
THEOREM RouteIsKept == Spec => []RouteAgrees
<1>1. DispatchInv /\ (\A r \in Request : RouteInv(r)) => RouteAgrees
  <2> SUFFICES ASSUME DispatchInv, \A r \in Request : RouteInv(r),
                      NEW e \in sent, Origin[e[1]] = "notification", ~ Http(e[1], e[2])
               PROVE  /\ conf.device = "none"
                      /\ Transport(found[e[1]]) = "none" \/ routed[e[1]] # found[e[1]]
    BY DEF RouteAgrees
  <2> DEFINE r == e[1]
  <2>1. r \in Request
    BY DEF DispatchInv, TypeOK, Execution
  <2>2. RoutedByHttp(r) /\ PlanAsFound(r) /\ e[2] \in DOMAIN plan[r]
    BY <2>1 DEF RouteInv
  <2>3. Transport(found[r]) # "HTTP"
    BY <2>1, <2>2, HttpOnly, CommandDispatchAssumption DEF PlanAsFound, Http
  <2> QED BY <2>2, <2>3 DEF RoutedByHttp, Transport
<1> QED BY <1>1, DispatchInvariant, RouteInvariant, PTL

-----------------------------------------------------------------------------
(* The series of a request: CommandDispatch implements CommandSeries.      *)

\* What the endpoint has accepted of r: nothing before its executions are known, and
\* only executions before the one in progress.
AcceptedInv(r) ==
  /\ stage[r] \in Early => \A e \in accepted : e[1] # r
  /\ stage[r] = "running" => \A e \in accepted : e[1] = r => e[2] < pc[r]

\* A request is lost only with the process.
LostInv == process = "up" => \A r \in Request : stage[r] # "lost"

SeriesInv == LostInv /\ \A r \in Request : AcceptedInv(r)

\* Where a part of the series of r ends: with an exception, at an execution of HTTP, or
\* after the last execution.  (async.series)
LEMMA AdvanceEnds ==
  ASSUME TypeOK, NEW r \in Request, NEW p \in Seq(Binding), NEW i \in 1..(Len(p) + 1),
         Advance(r, p, i)
  PROVE  /\ \A s \in Request \ {r} : stage'[s] = stage[s] /\ pc'[s] = pc[s]
         /\ \/ stage'[r] = "lost" /\ process' = "crashed"
            \/ /\ stage'[r] = "running"
               /\ pc'[r] \in i..Len(p)
               /\ p[pc'[r]] = "HTTP"
               /\ UNCHANGED process
            \/ /\ stage'[r] = "answered"
               /\ \A k \in i..Len(p) : p[k] # "HTTP"
               /\ UNCHANGED process
<1>1. PICK j \in i..(Len(p) + 1) :
        /\ j <= Len(p) => p[j] = "HTTP"
        /\ \A k \in i..(j - 1) : p[k] # "HTTP"
        /\ \/ /\ process' = "crashed"
              /\ stage' = [stage EXCEPT ![r] = "lost"]
           \/ /\ stage' = [stage EXCEPT ![r] = IF j <= Len(p) THEN "running" ELSE "answered"]
              /\ UNCHANGED process
        /\ pc' = [pc EXCEPT ![r] = j]
  BY DEF Advance
<1>2. \A s \in Request \ {r} : stage'[s] = stage[s] /\ pc'[s] = pc[s]
  BY <1>1 DEF TypeOK
<1>3. pc'[r] = j
  BY <1>1 DEF TypeOK
<1>4. CASE j <= Len(p)
  BY <1>1, <1>2, <1>3, <1>4 DEF TypeOK
<1>5. CASE ~ (j <= Len(p))
  <2>1. j - 1 = Len(p)
    BY <1>5
  <2> QED BY <1>1, <1>2, <1>5, <2>1 DEF TypeOK
<1> QED BY <1>4, <1>5

\* The part of the series keeps what is known of the accepted executions.
LEMMA AdvanceAccepts ==
  ASSUME TypeOK, NEW r \in Request, NEW p \in Seq(Binding), NEW i \in 1..(Len(p) + 1),
         Advance(r, p, i),
         process = "up",
         SeriesInv,
         \A e \in accepted' : e \in accepted \/ e[1] = r,
         \A e \in accepted' : e[1] = r => e[2] \in Nat /\ e[2] < i
  PROVE  SeriesInv'
<1>1. /\ \A s \in Request \ {r} : stage'[s] = stage[s] /\ pc'[s] = pc[s]
      /\ \/ stage'[r] = "lost" /\ process' = "crashed"
         \/ stage'[r] = "running" /\ pc'[r] \in i..Len(p) /\ UNCHANGED process
         \/ stage'[r] = "answered" /\ UNCHANGED process
  BY AdvanceEnds
<1>2. LostInv'
  BY <1>1 DEF SeriesInv, LostInv
<1>3. AcceptedInv(r)'
  BY <1>1 DEF AcceptedInv, Early
<1>4. ASSUME NEW s \in Request \ {r} PROVE AcceptedInv(s)'
  BY <1>1 DEF SeriesInv, AcceptedInv
<1> QED BY <1>2, <1>3, <1>4 DEF SeriesInv

\* A step of the handler of r to a stage where nothing is in progress keeps it.
LEMMA GoesAccepts ==
  ASSUME TypeOK, NEW r \in Request, NEW from, NEW to,
         Goes(r, from, to),
         to \notin {"running", "lost"},
         to \in Early => from \in Early,
         UNCHANGED <<accepted, pc, process>>,
         SeriesInv
  PROVE  SeriesInv'
<1>1. /\ stage[r] = from /\ stage'[r] = to
      /\ \A s \in Request \ {r} : stage'[s] = stage[s]
  BY DEF Goes, TypeOK
<1>2. LostInv'
  BY <1>1 DEF SeriesInv, LostInv
<1>3. AcceptedInv(r)'
  BY <1>1 DEF SeriesInv, AcceptedInv
<1>4. ASSUME NEW s \in Request \ {r} PROVE AcceptedInv(s)'
  BY <1>1 DEF SeriesInv, AcceptedInv
<1> QED BY <1>2, <1>3, <1>4 DEF SeriesInv

\* The invariant on accepted executions holds initially and every step preserves it.
LEMMA SeriesInvariant == Spec => []SeriesInv
<1>1. Init => SeriesInv
  BY DEF Init, SeriesInv, LostInv, AcceptedInv
<1>2. DispatchInv /\ SeriesInv /\ [Next]_vars => SeriesInv'
  <2> SUFFICES ASSUME TypeOK, \A r \in Request : RequestInv(r), SeriesInv, [Next]_vars
               PROVE  SeriesInv'
    BY DEF DispatchInv
  <2>1. ASSUME NEW r \in Request,
               \/ Receive(r) \/ GetDevice(r) \/ RouteKey(r) \/ Route(r) \/ EffectiveApiKey(r)
               \/ HttpRefused(r)
        PROVE  SeriesInv'
    <3>1. PICK from, to :
            /\ Goes(r, from, to)
            /\ to \notin {"running", "lost"}
            /\ to \in Early => from \in Early
      BY <2>1 DEF Receive, GetDevice, RouteKey, Route, EffectiveApiKey, HttpRefused, Early
    <3>2. UNCHANGED <<accepted, pc, process>>
      BY <2>1 DEF Receive, GetDevice, RouteKey, Route, EffectiveApiKey, HttpRefused,
                  running, outcome
    <3> QED BY <3>1, <3>2, GoesAccepts
  <2>2. ASSUME NEW r \in Request, NEW known, Execute(r, known),
               process = "up", stage[r] \in Early, UNCHANGED accepted
        PROVE  SeriesInv'
    <3> DEFINE p == Executions(ExecutionTransport(known), Size[r])
    <3>1. p \in Seq(Binding) /\ Advance(r, p, 1) /\ 1 \in 1..(Len(p) + 1)
      BY <2>2, ExecutionsType, CommandDispatchAssumption DEF Execute
    <3>2. \A e \in accepted' : e \in accepted /\ e[1] # r
      BY <2>2 DEF SeriesInv, AcceptedInv
    <3> HIDE DEF p
    <3> QED BY <2>2, <3>1, <3>2, AdvanceAccepts
  <2>3. ASSUME NEW r \in Request, FindGroup(r) PROVE SeriesInv'
    <3>1. /\ process = "up" /\ stage[r] = "group" /\ UNCHANGED accepted
          /\ \/ \E known \in {"yes", "no"} : Execute(r, known)
             \/ Goes(r, "group", "effects") /\ UNCHANGED <<pc, process>>
      BY <2>3 DEF FindGroup, outcome, running
    <3> QED BY <2>2, <3>1, GoesAccepts DEF Early
  <2>4. ASSUME NEW r \in Request, SideEffects(r) PROVE SeriesInv'
    <3>1. /\ process = "up" /\ stage[r] = "effects" /\ UNCHANGED accepted
          /\ \/ Execute(r, found[r])
             \/ Goes(r, "effects", "parked") /\ UNCHANGED <<pc, process>>
      BY <2>4 DEF SideEffects, outcome, running
    <3> QED BY <2>2, <3>1, GoesAccepts DEF Early
  <2>5. ASSUME NEW r \in Request, HttpAccepted(r) PROVE SeriesInv'
    <3>1. /\ process = "up" /\ stage[r] = "running"
          /\ accepted' = accepted \union {<<r, pc[r]>>}
          /\ Advance(r, plan[r], pc[r] + 1)
      BY <2>5 DEF HttpAccepted
    <3>2. plan[r] \in Seq(Binding) /\ pc[r] \in 1..Len(plan[r])
      BY <3>1 DEF RequestInv, TypeOK
    <3>3. pc[r] + 1 \in 1..(Len(plan[r]) + 1)
      BY <3>2
    <3>4. \A e \in accepted' : e \in accepted \/ e[1] = r
      BY <3>1
    <3>5. \A e \in accepted : e[1] = r => e[2] \in Nat /\ e[2] < pc[r]
      BY <3>1 DEF SeriesInv, AcceptedInv, TypeOK, Execution
    <3>6. \A e \in accepted' : e[1] = r => e[2] \in Nat /\ e[2] < pc[r] + 1
      BY <3>1, <3>2, <3>5
    <3> QED BY <3>1, <3>2, <3>3, <3>4, <3>6, AdvanceAccepts
  <2>6. ASSUME NEW e \in results, WriteResult(e) PROVE SeriesInv'
    BY <2>6 DEF WriteResult, progress, running, SeriesInv, LostInv, AcceptedInv
  <2>7. CASE MqttChanges \/ AmqpChanges
    BY <2>7 DEF MqttChanges, AmqpChanges, progress, running, outcome,
                SeriesInv, LostInv, AcceptedInv
  <2>8. CASE UNCHANGED vars
    BY <2>8 DEF vars, progress, running, outcome, SeriesInv, LostInv, AcceptedInv
  <2> QED BY <2>1, <2>3, <2>4, <2>5, <2>6, <2>7, <2>8 DEF Next
<1> QED BY <1>1, <1>2, DispatchInvariant, PTL DEF Spec

\* A step that changes nothing CommandSeries sees is a stutter.
LEMMA Stutters ==
  ASSUME \A s \in Request : Verdict'[s] = Verdict[s],
         UNCHANGED <<plan, accepted>>
  PROVE  UNCHANGED Series!seriesVars
<1>1. \A s \in Request : HttpSeries'[s] = HttpSeries[s]
  BY DEF HttpSeries
<1>2. HttpSeries' = HttpSeries /\ Verdict' = Verdict
  BY <1>1 DEF HttpSeries, Verdict
<1> QED BY <1>2 DEF Series!seriesVars

\* A request is open in CommandSeries while its handler waits for something.
LEMMA IsOpen ==
  ASSUME SeriesInv, process = "up", NEW r \in Request, stage[r] \in Early \union {"running"}
  PROVE  Verdict[r] = "open" /\ Series!Open(r)
<1>1. Verdict[r] = "open"
  BY DEF Verdict, Early
<1>2. \A s \in Request : Verdict[s] # "lost"
  BY DEF SeriesInv, LostInv, Verdict
<1> QED BY <1>1, <1>2 DEF Series!Open

\* When only the stage of r changes, r gets its new verdict.
LEMMA GetsVerdict ==
  ASSUME NEW r \in Request, \A s \in Request \ {r} : stage'[s] = stage[s]
  PROVE  Series!Gets(r, Verdict'[r])
<1>1. \A s \in Request \ {r} : Verdict'[s] = Verdict[s]
  BY DEF Verdict
<1>2. Verdict' = [Verdict EXCEPT ![r] = Verdict'[r]]
  BY <1>1 DEF Verdict
<1> QED BY <1>2 DEF Series!Gets

\* A step to a stage that waits, or that has no executions to perform, is a stutter, the
\* end of a request without executions, a refusal or a command that is stored.
LEMMA GoesImplements ==
  ASSUME TypeOK, SeriesInv, NEW r \in Request, RequestInv(r), NEW from, NEW to,
         Goes(r, from, to),
         UNCHANGED <<plan, accepted>>,
         \/ to \in Early /\ from \in Early
         \/ to \in {"answered", "parked"} /\ from \in Early
         \/ to = "failed" /\ from \in Early \union {"running"}
  PROVE  [Series!SeriesNext]_(Series!seriesVars)
<1>1. /\ process = "up" /\ stage[r] = from /\ stage'[r] = to
      /\ \A s \in Request \ {r} : stage'[s] = stage[s]
  BY DEF Goes, TypeOK
<1>2. Verdict[r] = "open" /\ Series!Open(r)
  BY <1>1, IsOpen
<1>3. Series!Gets(r, Verdict'[r])
  BY <1>1, GetsVerdict
<1>4. \A s \in Request : HttpSeries'[s] = HttpSeries[s]
  BY DEF HttpSeries
<1>5. from \in Early => HttpSeries[r] = {}
  BY <1>1 DEF RequestInv, HttpSeries
<1>6. CASE to \in Early
  <2>1. \A s \in Request : Verdict'[s] = Verdict[s]
    BY <1>1, <1>2, <1>6 DEF Verdict, Early
  <2> QED BY <2>1, Stutters
<1>7. CASE to = "answered"
  <2>1. Verdict'[r] = "done" /\ from \in Early
    BY <1>1, <1>7 DEF Verdict, Early
  <2>2. \A s \in Request : HttpSeries[s] \in SUBSET Nat
    BY DEF HttpSeries, TypeOK
  <2>3. Series!Begin(r)
    BY <1>2, <1>3, <1>4, <1>5, <2>1, <2>2 DEF Series!Begin, HttpSeries
  <2> QED BY <2>3 DEF Series!SeriesNext
<1>8. CASE to = "parked"
  <2>1. Verdict'[r] = "stored" /\ from \in Early
    BY <1>1, <1>8 DEF Verdict, Early
  <2>2. Series!Store(r)
    BY <1>2, <1>3, <1>4, <1>5, <2>1 DEF Series!Store, HttpSeries
  <2> QED BY <2>2 DEF Series!SeriesNext
<1>9. CASE to = "failed"
  <2>1. Verdict'[r] = "refused"
    BY <1>1, <1>9 DEF Verdict
  <2>2. Series!Refuse(r)
    BY <1>2, <1>3, <1>4, <2>1 DEF Series!Refuse, HttpSeries
  <2> QED BY <2>2 DEF Series!SeriesNext
<1> QED BY <1>6, <1>7, <1>8, <1>9

\* Executing a request is the step by which its commands become known.
LEMMA ExecuteImplements ==
  ASSUME TypeOK, SeriesInv, process = "up", NEW r \in Request, RequestInv(r), NEW known,
         stage[r] \in Early, Execute(r, known), UNCHANGED accepted
  PROVE  [Series!SeriesNext]_(Series!seriesVars)
<1> DEFINE p == Executions(ExecutionTransport(known), Size[r])
<1>1. /\ p \in Seq(Binding) /\ Len(p) \in Nat /\ 1 \in 1..(Len(p) + 1)
      /\ plan' = [plan EXCEPT ![r] = p] /\ Advance(r, p, 1)
  BY ExecutionsType, CommandDispatchAssumption DEF Execute
<1> HIDE DEF p
<1>2. /\ \A s \in Request \ {r} : stage'[s] = stage[s]
      /\ \/ stage'[r] = "lost"
         \/ stage'[r] = "running" /\ pc'[r] \in 1..Len(p) /\ p[pc'[r]] = "HTTP"
         \/ stage'[r] = "answered" /\ \A k \in 1..Len(p) : p[k] # "HTTP"
  BY <1>1, AdvanceEnds
<1>3. plan'[r] = p /\ \A s \in Request \ {r} : plan'[s] = plan[s]
  BY <1>1 DEF TypeOK
<1>4. \A s \in Request \ {r} : HttpSeries'[s] = HttpSeries[s]
  BY <1>3 DEF HttpSeries
<1>5. HttpSeries'[r] = {k \in 1..Len(p) : p[k] = "HTTP"}
  BY <1>1, <1>3 DEF HttpSeries
<1>6. HttpSeries[r] = {}
  BY DEF RequestInv, HttpSeries
<1>7. \A s \in Request : HttpSeries'[s] \in SUBSET Nat
  <2>1. \A s \in Request \ {r} : HttpSeries[s] \in SUBSET Nat
    BY DEF HttpSeries, TypeOK
  <2> QED BY <1>1, <1>4, <1>5, <2>1
<1>8. Verdict'[r] = "lost" \/ Verdict'[r] = IF HttpSeries'[r] = {} THEN "done" ELSE "open"
  BY <1>2, <1>5 DEF Verdict
<1>9. Series!Gets(r, Verdict'[r]) /\ Series!Open(r)
  BY <1>2, GetsVerdict, IsOpen
<1>10. Series!Begin(r)
  <2> DEFINE S == [s \in Request |-> HttpSeries[s]]
  <2>1. S[r] = {} /\ S' \in [Request -> SUBSET Nat] /\ \A s \in Request \ {r} : S'[s] = S[s]
    BY <1>4, <1>6, <1>7
  <2>2. S'[r] = HttpSeries'[r]
    OBVIOUS
  <2> QED BY <1>8, <1>9, <2>1, <2>2 DEF Series!Begin, HttpSeries
<1> QED BY <1>10 DEF Series!SeriesNext

\* An accepted answer performs the next command.
LEMMA AcceptedImplements ==
  ASSUME TypeOK, SeriesInv, NEW r \in Request, RequestInv(r), RequestInv(r)', HttpAccepted(r)
  PROVE  Series!Perform(r)
<1>1. /\ process = "up" /\ stage[r] = "running"
      /\ accepted' = accepted \union {<<r, pc[r]>>}
      /\ Advance(r, plan[r], pc[r] + 1)
      /\ UNCHANGED plan
  BY DEF HttpAccepted
<1>2. /\ plan[r] \in Seq(Binding) /\ DOMAIN plan[r] = 1..Len(plan[r]) /\ Len(plan[r]) \in Nat
      /\ pc[r] \in 1..Len(plan[r]) /\ plan[r][pc[r]] = "HTTP"
      /\ Done(plan[r], r, pc[r], accepted)
  BY <1>1 DEF RequestInv, TypeOK
<1>3. pc[r] + 1 \in 1..(Len(plan[r]) + 1)
  BY <1>2
<1>4. /\ \A s \in Request \ {r} : stage'[s] = stage[s]
      /\ \/ stage'[r] = "lost"
         \/ /\ stage'[r] = "running" /\ pc'[r] \in (pc[r] + 1)..Len(plan[r])
            /\ plan[r][pc'[r]] = "HTTP"
         \/ stage'[r] = "answered"
  BY <1>1, <1>2, <1>3, AdvanceEnds
<1>5. pc[r] \in HttpSeries[r] /\ HttpSeries[r] \subseteq Nat
  BY <1>2 DEF HttpSeries
<1>6. <<r, pc[r]>> \notin accepted
  BY <1>1, <1>2 DEF SeriesInv, AcceptedInv
<1>7. \A l \in HttpSeries[r] : l < pc[r] => <<r, l>> \in accepted
  BY <1>2 DEF HttpSeries, Done
<1>8. CASE stage'[r] = "lost"
  <2>1. Verdict'[r] = "lost"
    BY <1>8 DEF Verdict
  <2> QED
    BY <1>1, <1>4, <1>5, <1>6, <1>7, <2>1, GetsVerdict, IsOpen
    DEF Series!Perform, HttpSeries
<1>9. CASE stage'[r] = "running" /\ pc'[r] \in (pc[r] + 1)..Len(plan[r]) /\ plan[r][pc'[r]] = "HTTP"
  <2>1. pc'[r] \in HttpSeries[r]
    BY <1>2, <1>9 DEF HttpSeries
  <2>2. <<r, pc'[r]>> \notin accepted'
    <3>1. ~ (pc'[r] < pc[r]) /\ pc'[r] # pc[r]
      BY <1>2, <1>9
    <3>2. <<r, pc'[r]>> \notin accepted
      BY <1>1, <3>1 DEF SeriesInv, AcceptedInv
    <3> QED BY <1>1, <3>1, <3>2
  <2>3. Verdict'[r] = "open"
    BY <1>9 DEF Verdict
  <2> QED
    BY <1>1, <1>4, <1>5, <1>6, <1>7, <2>1, <2>2, <2>3, GetsVerdict, IsOpen
    DEF Series!Perform, HttpSeries
<1>10. CASE stage'[r] = "answered"
  <2>1. Done(plan[r], r, Len(plan[r]) + 1, accepted')
    BY <1>1, <1>10 DEF RequestInv
  <2>2. \A l \in HttpSeries[r] : <<r, l>> \in accepted'
    BY <1>2, <2>1 DEF HttpSeries, Done
  <2>3. Verdict'[r] = "done"
    BY <1>10 DEF Verdict
  <2> QED
    BY <1>1, <1>4, <1>5, <1>6, <1>7, <2>2, <2>3, GetsVerdict, IsOpen
    DEF Series!Perform, HttpSeries
<1> QED BY <1>4, <1>8, <1>9, <1>10

\* The handling of requests implements CommandSeries: the commands of a request are
\* accepted one after the other and at most once, and it gets one verdict, which fits
\* what was accepted.  (commandHandler, notificationHandler, executeCommand of the HTTP
\* binding, async.series)
THEOREM DispatchImplementsSeries == Spec => ImplementsSeries
<1>1. Init => Series!SeriesInit
  <2> SUFFICES ASSUME Init PROVE Series!SeriesInit
    OBVIOUS
  <2>1. \A r \in Request : plan[r] = <<>> /\ stage[r] = "new"
    BY DEF Init
  <2>2. HttpSeries = [r \in Request |-> {}]
    BY <2>1 DEF HttpSeries
  <2>3. Verdict = [r \in Request |-> "open"]
    BY <2>1 DEF Verdict
  <2> QED BY <2>2, <2>3 DEF Init, Series!SeriesInit
<1>2. DispatchInv /\ DispatchInv' /\ SeriesInv /\ [Next]_vars
        => [Series!SeriesNext]_(Series!seriesVars)
  <2> SUFFICES ASSUME TypeOK, \A r \in Request : RequestInv(r), \A r \in Request : RequestInv(r)',
                      SeriesInv, [Next]_vars
               PROVE  [Series!SeriesNext]_(Series!seriesVars)
    BY DEF DispatchInv
  <2>1. ASSUME NEW r \in Request,
               \/ Receive(r) \/ GetDevice(r) \/ RouteKey(r) \/ Route(r) \/ EffectiveApiKey(r)
               \/ HttpRefused(r)
        PROVE  [Series!SeriesNext]_(Series!seriesVars)
    <3>1. PICK from, to :
            /\ Goes(r, from, to)
            /\ \/ to \in Early /\ from \in Early
               \/ to = "answered" /\ from \in Early
               \/ to = "failed" /\ from \in Early \union {"running"}
      BY <2>1 DEF Receive, GetDevice, RouteKey, Route, EffectiveApiKey, HttpRefused, Early
    <3>2. UNCHANGED <<plan, accepted>>
      BY <2>1 DEF Receive, GetDevice, RouteKey, Route, EffectiveApiKey, HttpRefused,
                  running, outcome
    <3> QED BY <3>1, <3>2, GoesImplements
  <2>2. ASSUME NEW r \in Request, FindGroup(r)
        PROVE  [Series!SeriesNext]_(Series!seriesVars)
    <3>1. /\ process = "up" /\ stage[r] \in Early /\ UNCHANGED accepted
          /\ \/ \E known \in {"yes", "no"} : Execute(r, known)
             \/ Goes(r, "group", "effects") /\ UNCHANGED plan
      BY <2>2 DEF FindGroup, outcome, running, Early
    <3> QED BY <3>1, ExecuteImplements, GoesImplements DEF Early
  <2>3. ASSUME NEW r \in Request, SideEffects(r)
        PROVE  [Series!SeriesNext]_(Series!seriesVars)
    <3>1. /\ process = "up" /\ stage[r] \in Early /\ UNCHANGED accepted
          /\ \/ Execute(r, found[r])
             \/ Goes(r, "effects", "parked") /\ UNCHANGED plan
      BY <2>3 DEF SideEffects, outcome, running, Early
    <3> QED BY <3>1, ExecuteImplements, GoesImplements DEF Early
  <2>4. ASSUME NEW r \in Request, HttpAccepted(r)
        PROVE  [Series!SeriesNext]_(Series!seriesVars)
    <3>1. Series!Perform(r)
      BY <2>4, AcceptedImplements
    <3> QED BY <3>1 DEF Series!SeriesNext
  <2>5. CASE (\E e \in results : WriteResult(e)) \/ MqttChanges \/ AmqpChanges \/ UNCHANGED vars
    <3>1. UNCHANGED <<stage, plan, accepted>>
      BY <2>5 DEF WriteResult, MqttChanges, AmqpChanges, vars, progress, running, outcome
    <3>2. \A s \in Request : Verdict'[s] = Verdict[s]
      BY <3>1 DEF Verdict
    <3> QED BY <3>1, <3>2, Stutters
  <2> QED BY <2>1, <2>2, <2>3, <2>4, <2>5 DEF Next
<1> QED
  BY <1>1, <1>2, DispatchInvariant, SeriesInvariant, PTL DEF Spec, ImplementsSeries, Series!SeriesSpec
=============================================================================
