--------------------------- MODULE GpioIrqProofs ---------------------------
(***************************************************************************)
(* Theorems about GpioIrq, for every set of tasks, pins and edges and any  *)
(* overlap of attaches, detaches, edges and the service routine: no edge   *)
(* on an attached pin is lost.                                             *)
(***************************************************************************)
EXTENDS GpioIrq, TLAPS

-----------------------------------------------------------------------------
(* The rest of a program.                                                  *)

\* What is left of a program is a program.
LEMMA TailTyped ==
  ASSUME NEW s \in Seq(Steps), s # <<>>
  PROVE  /\ Tail(s) \in Seq(Steps)
         /\ Head(s) \in Steps
  OBVIOUS

\* Once the handler is set, it stays so for the rest of the call.
LEMMA TailLater ==
  ASSUME NEW s \in Seq(Steps), s # <<>>, Later(s)
  PROVE  /\ Later(Tail(s))
         /\ (\E i \in 1..Len(Tail(s)) : Tail(s)[i] = "ena") => \E i \in 1..Len(s) : s[i] = "ena"
<1>1. Len(Tail(s)) = Len(s) - 1 /\ \A i \in 1..Len(Tail(s)) : Tail(s)[i] = s[i + 1]
  OBVIOUS
<1>2. Len(s) \in Nat
  OBVIOUS
<1>3. \A i \in 1..Len(Tail(s)) : i + 1 \in 1..Len(s)
  BY <1>1, <1>2
<1>4. Later(Tail(s))
  BY <1>1, <1>3 DEF Later
<1> QED BY <1>1, <1>3, <1>4

\* The head of a program that is past the handler.
LEMMA HeadLater ==
  ASSUME NEW s \in Seq(Steps), s # <<>>, Later(s)
  PROVE  Head(s) \notin {"init", "alloc", "handler"}
<1>1. Head(s) = s[1] /\ 1 \in 1..Len(s)
  OBVIOUS
<1> QED BY <1>1 DEF Later

\* The programs, and what is left of an attach after its first steps.
LEMMA Programs ==
  /\ Attach \in Seq(Steps) /\ Attach # <<>> /\ Head(Attach) = "init"
  /\ Tail(Attach) = <<"alloc", "handler", "mask", "ena", "type", "unmask">>
  /\ Tail(Tail(Attach)) = <<"handler", "mask", "ena", "type", "unmask">>
  /\ Tail(Tail(Tail(Attach))) = <<"mask", "ena", "type", "unmask">>
  /\ Detach \in Seq(Steps) /\ Later(Detach) /\ ~ \E i \in 1..Len(Detach) : Detach[i] = "ena"
<1>1. Attach \in Seq(Steps) /\ Attach # <<>> /\ Head(Attach) = "init"
  BY DEF Attach, Steps
<1>2. Tail(Attach) = <<"alloc", "handler", "mask", "ena", "type", "unmask">>
  BY DEF Attach
<1>3. Tail(<<"alloc", "handler", "mask", "ena", "type", "unmask">>)
        = <<"handler", "mask", "ena", "type", "unmask">>
  OBVIOUS
<1>4. Tail(<<"handler", "mask", "ena", "type", "unmask">>) = <<"mask", "ena", "type", "unmask">>
  OBVIOUS
<1>5. Detach \in Seq(Steps)
  BY DEF Detach, Steps
<1>6. Len(Detach) = 5 /\ \A i \in 1..5 : Detach[i] \in {"check", "mask", "enaOff", "typeOff", "unmask"}
  BY DEF Detach
<1>7. Later(Detach) /\ ~ \E i \in 1..Len(Detach) : Detach[i] = "ena"
  BY <1>6 DEF Later
<1> QED BY <1>1, <1>2, <1>3, <1>4, <1>5, <1>7

\* Which of the early programs a step belongs to, and what it leaves.
LEMMA EarlySteps ==
  /\ Head(Attach) = "init" /\ Head(Tail(Attach)) = "alloc" /\ Head(Tail(Tail(Attach))) = "handler"
  /\ \A s \in Early : Head(s) \in {"init", "alloc", "handler"} /\ s # <<>>
  /\ Later(Tail(Tail(Tail(Attach)))) /\ Tail(Tail(Tail(Attach))) \in Seq(Steps)
  /\ Early \subseteq Seq(Steps)
  /\ \A s \in Early : ~Later(s)
<1>0. Head(<<"alloc", "handler", "mask", "ena", "type", "unmask">>) = "alloc"
      /\ Head(<<"handler", "mask", "ena", "type", "unmask">>) = "handler"
      /\ <<"alloc", "handler", "mask", "ena", "type", "unmask">> # <<>>
      /\ <<"handler", "mask", "ena", "type", "unmask">> # <<>>
  OBVIOUS
<1>1. Head(Attach) = "init" /\ Head(Tail(Attach)) = "alloc" /\ Head(Tail(Tail(Attach))) = "handler"
  BY <1>0, Programs
<1>2. \A s \in Early : Head(s) \in {"init", "alloc", "handler"} /\ s # <<>>
  BY <1>0, <1>1, Programs DEF Early
<1>3. Later(<<"mask", "ena", "type", "unmask">>) /\ <<"mask", "ena", "type", "unmask">> \in Seq(Steps)
  BY DEF Later, Steps
<1>4. Early \subseteq Seq(Steps)
  BY Programs, TailTyped, <1>2 DEF Early
<1>5. \A s \in Early : ~Later(s)
  BY <1>2, <1>4, HeadLater
<1> QED BY <1>1, <1>2, <1>3, <1>4, <1>5, Programs

-----------------------------------------------------------------------------
(* The invariant.                                                          *)

LEMMA InitEdgeInv == Init => EdgeInv
<1> SUFFICES ASSUME Init PROVE EdgeInv
  OBVIOUS
<1>1. Later(<<>>) /\ <<>> \in Seq(Steps)
  BY DEF Later
<1>2. TypeOK
  <2>1. todo \in [Tasks -> Seq(Steps)]
    BY <1>1 DEF Init
  <2>2. calls \in 0..MaxCalls
    BY CallAssumption DEF Init
  <2>3. /\ pin \in [Tasks -> Pins \cup {-1}] /\ edge \in [Tasks -> Edges \cup {"none"}]
        /\ handler \in [Pins -> BOOLEAN]
        /\ ena \in [Pins -> {0, 1, NoCore}]
        /\ type \in [Pins -> 0..3]
        /\ use \in [Pins -> Uses]
        /\ stray \in [Pins -> 0..3]
    BY DEF Init, Uses
  <2>4. /\ inited \in BOOLEAN /\ core \in {0, 1, NoCore} /\ unmasked \in BOOLEAN
        /\ status \subseteq Pins /\ seen \subseteq Pins /\ due \subseteq Pins
        /\ isr \in {"idle", "readHigh", "clearLow", "clearHigh", "walk"}
    BY DEF Init
  <2> QED BY <2>1, <2>2, <2>3, <2>4 DEF TypeOK
<1>3. HandlerSet
  <2>1. \A t \in Tasks : todo[t] = <<>>
    BY DEF Init
  <2>2. \A t \in Tasks : 1..Len(todo[t]) = {} /\ Later(todo[t])
    BY <1>1, <2>1
  <2>3. (\A p \in Pins : ena[p] = NoCore /\ use[p] = "never") /\ due = {}
    BY DEF Init
  <2> QED BY <2>1, <2>2, <2>3 DEF HandlerSet, InUse
<1>4. NothingSeen /\ NoLostEdge
  BY DEF Init, NothingSeen, NoLostEdge
<1> QED BY <1>2, <1>3, <1>4 DEF EdgeInv

\* A step of a call that is past the handler: the program gets shorter.
LEMMA LaterStep ==
  ASSUME EdgeInv, NEW t \in Tasks, todo[t] # <<>>, Later(todo[t]),
         todo' = [todo EXCEPT ![t] = Tail(@)], pin' = pin,
         \A p \in Pins : handler[p] => handler'[p]
  PROVE  /\ todo' \in [Tasks -> Seq(Steps)]
         /\ \A u \in Tasks : todo'[u] \in Early \/ Later(todo'[u])
         /\ \A u \in Tasks : todo'[u] # <<>> => pin'[u] \in Pins
         /\ \A u \in Tasks : Later(todo'[u]) /\ (\E i \in 1..Len(todo'[u]) : todo'[u][i] = "ena")
                            => handler'[pin'[u]]
<1>1. todo \in [Tasks -> Seq(Steps)]
  BY DEF EdgeInv, TypeOK
<1>2. todo[t] \in Seq(Steps) /\ pin[t] \in Pins
  BY <1>1 DEF EdgeInv, HandlerSet
<1>3. /\ Tail(todo[t]) \in Seq(Steps)
      /\ Later(Tail(todo[t]))
      /\ (\E i \in 1..Len(Tail(todo[t])) : Tail(todo[t])[i] = "ena") => \E i \in 1..Len(todo[t]) : todo[t][i] = "ena"
  BY <1>2, TailTyped, TailLater
<1>4. todo'[t] = Tail(todo[t]) /\ \A u \in Tasks \ {t} : todo'[u] = todo[u]
  BY <1>1
<1>5. todo' \in [Tasks -> Seq(Steps)]
  BY <1>1, <1>3
<1>6. (\E i \in 1..Len(todo[t]) : todo[t][i] = "ena") => handler[pin[t]]
  BY DEF EdgeInv, HandlerSet
<1>7. \A u \in Tasks \ {t} :
        /\ todo[u] \in Early \/ Later(todo[u])
        /\ todo[u] # <<>> => pin[u] \in Pins
        /\ Later(todo[u]) /\ (\E i \in 1..Len(todo[u]) : todo[u][i] = "ena") => handler[pin[u]]
  BY DEF EdgeInv, HandlerSet
<1>8. \A u \in Tasks : (\E i \in 1..Len(todo[u]) : todo[u][i] = "ena") => todo[u] # <<>>
  OBVIOUS
<1>9. ASSUME NEW u \in Tasks
      PROVE  /\ todo'[u] \in Early \/ Later(todo'[u])
             /\ todo'[u] # <<>> => pin'[u] \in Pins
             /\ Later(todo'[u]) /\ (\E i \in 1..Len(todo'[u]) : todo'[u][i] = "ena") => handler'[pin'[u]]
  <2>1. CASE u = t
    BY <2>1, <1>2, <1>3, <1>4, <1>6
  <2>2. CASE u # t
    BY <2>2, <1>4, <1>7, <1>8
  <2> QED BY <2>1, <2>2
<1> QED BY <1>5, <1>9

-----------------------------------------------------------------------------
(* The steps of a call.                                                    *)

\* A call begins: its program is still before the handler, or has none to set.
LEMMA CallEdgeInv ==
  ASSUME EdgeInv, NEW t \in Tasks, NEW p \in Pins, NEW e \in Edges \cup {"none"},
         NEW program \in {Attach, Detach}, Call(t, p, e, program)
  PROVE  EdgeInv'
<1>1. program \in Seq(Steps)
  BY Programs
<1>2. program \in Early \/ (Later(program) /\ ~ \E i \in 1..Len(program) : program[i] = "ena")
  BY Programs DEF Early
<1>3. TypeOK'
  <2>1. todo' \in [Tasks -> Seq(Steps)]
    BY <1>1 DEF EdgeInv, TypeOK, Call
  <2>2. calls' \in 0..MaxCalls
    BY CallAssumption DEF EdgeInv, TypeOK, Call
  <2>3. /\ pin' \in [Tasks -> Pins \cup {-1}] /\ edge' \in [Tasks -> Edges \cup {"none"}]
        /\ use' \in [Pins -> Uses]
        /\ stray' \in [Pins -> 0..3]
        /\ due' \subseteq Pins
    BY DEF EdgeInv, TypeOK, Call, Uses, InUse
  <2>4. UNCHANGED <<inited, core, unmasked, handler, ena, type, status, isr, seen>>
    BY DEF Call, intr, regs
  <2> QED BY <2>1, <2>2, <2>3, <2>4 DEF EdgeInv, TypeOK
<1>4. todo'[t] = program /\ pin'[t] = p /\ \A u \in Tasks \ {t} : todo'[u] = todo[u] /\ pin'[u] = pin[u]
  BY DEF EdgeInv, TypeOK, Call, Uses, InUse
<1>5. handler' = handler /\ ena' = ena /\ due' = due \ {p}
  BY DEF Call, regs
<1>6. \A q \in Pins : use'[q] \in InUse => use[q] \in InUse
  BY DEF EdgeInv, TypeOK, Call, Uses, InUse
<1>7. HandlerSet'
  <2>1. ASSUME NEW u \in Tasks
        PROVE  /\ todo'[u] \in Early \/ Later(todo'[u])
               /\ todo'[u] # <<>> => pin'[u] \in Pins
               /\ Later(todo'[u]) /\ (\E i \in 1..Len(todo'[u]) : todo'[u][i] = "ena") => handler'[pin'[u]]
    <3>1. CASE u = t
      BY <3>1, <1>2, <1>4, EarlySteps
    <3>2. CASE u # t
      BY <3>2, <1>4, <1>5 DEF EdgeInv, HandlerSet
    <3> QED BY <3>1, <3>2
  <2> QED BY <2>1, <1>5, <1>6 DEF EdgeInv, HandlerSet
<1>8. NothingSeen' /\ NoLostEdge'
  BY <1>5 DEF EdgeInv, NothingSeen, NoLostEdge, Call
<1> QED BY <1>3, <1>7, <1>8 DEF EdgeInv

\* if(!_initializedIrqs): an attach at its first step, with or without the allocation to do.
LEMMA InitIrqsEdgeInv ==
  ASSUME EdgeInv, NEW t \in Tasks, InitIrqs(t)
  PROVE  EdgeInv'
<1>1. todo \in [Tasks -> Seq(Steps)] /\ todo[t] = Attach
  BY HeadLater, EarlySteps DEF EdgeInv, TypeOK, HandlerSet, InitIrqs, At, Early
<1>2. todo' = [todo EXCEPT ![t] = IF inited THEN Tail(Tail(Attach)) ELSE Tail(Attach)]
  BY <1>1 DEF InitIrqs
<1>3. todo'[t] \in Early /\ todo'[t] \in Seq(Steps) /\ \A u \in Tasks \ {t} : todo'[u] = todo[u]
  BY <1>1, <1>2, EarlySteps DEF Early
<1>4. UNCHANGED <<pin, edge, core, unmasked, handler, ena, type, status, isr, seen, use, due, stray, calls>>
      /\ inited' = TRUE
  BY DEF InitIrqs, regs
<1>5. TypeOK'
  BY <1>1, <1>2, <1>3, <1>4 DEF EdgeInv, TypeOK
<1>6. HandlerSet'
  <2>1. ASSUME NEW u \in Tasks
        PROVE  /\ todo'[u] \in Early \/ Later(todo'[u])
               /\ todo'[u] # <<>> => pin'[u] \in Pins
               /\ Later(todo'[u]) /\ (\E i \in 1..Len(todo'[u]) : todo'[u][i] = "ena") => handler'[pin'[u]]
    <3>1. CASE u = t
      BY <3>1, <1>1, <1>3, <1>4, EarlySteps DEF EdgeInv, HandlerSet, Early
    <3>2. CASE u # t
      BY <3>2, <1>3, <1>4 DEF EdgeInv, HandlerSet
    <3> QED BY <3>1, <3>2
  <2> QED BY <2>1, <1>4 DEF EdgeInv, HandlerSet
<1>7. NothingSeen' /\ NoLostEdge'
  BY <1>4 DEF EdgeInv, NothingSeen, NoLostEdge
<1> QED BY <1>5, <1>6, <1>7 DEF EdgeInv

\* esp_intr_alloc.
LEMMA AllocEdgeInv ==
  ASSUME EdgeInv, NEW t \in Tasks, Alloc(t)
  PROVE  EdgeInv'
<1>1. todo \in [Tasks -> Seq(Steps)] /\ todo[t] = Tail(Attach)
  BY HeadLater, EarlySteps DEF EdgeInv, TypeOK, HandlerSet, Alloc, At, Early
<1>2. todo' = [todo EXCEPT ![t] = Tail(Tail(Attach))]
  BY <1>1 DEF Alloc, Done
<1>3. todo'[t] \in Early /\ todo'[t] \in Seq(Steps) /\ \A u \in Tasks \ {t} : todo'[u] = todo[u]
  BY <1>1, <1>2, EarlySteps DEF Early
<1>4. UNCHANGED <<pin, edge, inited, handler, ena, type, status, isr, seen, due, stray, calls>>
      /\ core' \in {0, 1} /\ unmasked' = TRUE
  BY CoreAssumption DEF Alloc, Done, regs
<1>8. use' \in [Pins -> Uses] /\ \A p \in Pins : use'[p] \in InUse => use[p] \in InUse
  <2>1. \A u \in Uses : Overtaken(u) \in Uses /\ (Overtaken(u) \in InUse => u \in InUse)
    BY DEF Overtaken, Uses, InUse
  <2>2. use \in [Pins -> Uses]
    BY DEF EdgeInv, TypeOK
  <2> QED BY <2>1, <2>2 DEF Alloc
<1>5. TypeOK'
  BY <1>1, <1>2, <1>3, <1>4, <1>8 DEF EdgeInv, TypeOK
<1>6. HandlerSet'
  <2>1. ASSUME NEW u \in Tasks
        PROVE  /\ todo'[u] \in Early \/ Later(todo'[u])
               /\ todo'[u] # <<>> => pin'[u] \in Pins
               /\ Later(todo'[u]) /\ (\E i \in 1..Len(todo'[u]) : todo'[u][i] = "ena") => handler'[pin'[u]]
    <3>1. CASE u = t
      BY <3>1, <1>1, <1>3, <1>4, EarlySteps DEF EdgeInv, HandlerSet, Early
    <3>2. CASE u # t
      BY <3>2, <1>3, <1>4 DEF EdgeInv, HandlerSet
    <3> QED BY <3>1, <3>2
  <2> QED BY <2>1, <1>4, <1>8 DEF EdgeInv, HandlerSet
<1>7. NothingSeen' /\ NoLostEdge'
  BY <1>4 DEF EdgeInv, NothingSeen, NoLostEdge
<1> QED BY <1>5, <1>6, <1>7 DEF EdgeInv

\* if(!_initializedIrqs) return: a detach goes on or ends.
LEMMA CheckEdgeInv ==
  ASSUME EdgeInv, NEW t \in Tasks, Check(t)
  PROVE  EdgeInv'
<1>1. todo[t] # <<>> /\ Later(todo[t]) /\ todo[t] \in Seq(Steps) /\ todo \in [Tasks -> Seq(Steps)]
  BY EarlySteps DEF EdgeInv, TypeOK, HandlerSet, Check, At
<1>2. UNCHANGED <<pin, edge, inited, core, unmasked, handler, ena, type, status, isr, seen, due, stray, calls>>
  BY DEF Check, Done, intr, regs
<1>3. use' \in [Pins -> Uses]
      /\ \A p \in Pins : use'[p] \in InUse => use[p] \in InUse
  BY DEF EdgeInv, TypeOK, Check, Uses, InUse
<1>4. /\ todo' \in [Tasks -> Seq(Steps)]
      /\ \A u \in Tasks : todo'[u] \in Early \/ Later(todo'[u])
      /\ \A u \in Tasks : todo'[u] # <<>> => pin'[u] \in Pins
      /\ \A u \in Tasks : Later(todo'[u]) /\ (\E i \in 1..Len(todo'[u]) : todo'[u][i] = "ena")
                         => handler'[pin'[u]]
  <2>1. CASE inited
    BY <2>1, <1>1, <1>2, LaterStep DEF Check, Done
  <2>2. CASE ~inited
    <3>1. todo' = [todo EXCEPT ![t] = <<>>]
      BY <2>2 DEF Check
    <3>2. <<>> \in Seq(Steps) /\ Later(<<>>) /\ 1..Len(<<>>) = {}
      BY DEF Later
    <3>3. todo'[t] = <<>> /\ \A u \in Tasks \ {t} : todo'[u] = todo[u]
      BY <1>1, <3>1
    <3>4. todo' \in [Tasks -> Seq(Steps)]
      BY <1>1, <3>1, <3>2
    <3>5. ASSUME NEW u \in Tasks
          PROVE  /\ todo'[u] \in Early \/ Later(todo'[u])
                 /\ todo'[u] # <<>> => pin'[u] \in Pins
                 /\ Later(todo'[u]) /\ (\E i \in 1..Len(todo'[u]) : todo'[u][i] = "ena") => handler'[pin'[u]]
      <4>1. CASE u = t
        BY <4>1, <3>2, <3>3
      <4>2. CASE u # t
        BY <4>2, <3>3, <1>2 DEF EdgeInv, HandlerSet
      <4> QED BY <4>1, <4>2
    <3> QED BY <3>4, <3>5
  <2> QED BY <2>1, <2>2
<1>5. TypeOK'
  BY <1>2, <1>3, <1>4 DEF EdgeInv, TypeOK
<1>6. HandlerSet'
  BY <1>2, <1>3, <1>4 DEF EdgeInv, HandlerSet
<1>7. NothingSeen' /\ NoLostEdge'
  BY <1>2 DEF EdgeInv, NothingSeen, NoLostEdge
<1> QED BY <1>5, <1>6, <1>7 DEF EdgeInv

\* esp_intr_disable.
LEMMA MaskEdgeInv ==
  ASSUME EdgeInv, NEW t \in Tasks, Mask(t)
  PROVE  EdgeInv'
<1>1. todo[t] # <<>> /\ Later(todo[t])
  BY EarlySteps DEF EdgeInv, HandlerSet, Mask, At
<1>2. UNCHANGED <<pin, edge, inited, core, handler, ena, type, status, isr, seen, use, due, stray, calls>>
      /\ unmasked' = FALSE
  BY DEF Mask, Done, regs
<1>3. /\ todo' \in [Tasks -> Seq(Steps)]
      /\ \A u \in Tasks : todo'[u] \in Early \/ Later(todo'[u])
      /\ \A u \in Tasks : todo'[u] # <<>> => pin'[u] \in Pins
      /\ \A u \in Tasks : Later(todo'[u]) /\ (\E i \in 1..Len(todo'[u]) : todo'[u][i] = "ena")
                         => handler'[pin'[u]]
  BY <1>1, <1>2, LaterStep DEF Mask, Done
<1>4. TypeOK'
  BY <1>2, <1>3 DEF EdgeInv, TypeOK
<1>5. HandlerSet'
  BY <1>2, <1>3 DEF EdgeInv, HandlerSet
<1>6. NothingSeen' /\ NoLostEdge'
  BY <1>2 DEF EdgeInv, NothingSeen, NoLostEdge
<1> QED BY <1>4, <1>5, <1>6 DEF EdgeInv

\* esp_intr_enable: a pin counts as attached when int_ena is set, and then it has a handler.
LEMMA UnmaskEdgeInv ==
  ASSUME EdgeInv, NEW t \in Tasks, Unmask(t)
  PROVE  EdgeInv'
<1>1. todo[t] # <<>> /\ Later(todo[t]) /\ pin[t] \in Pins
  BY EarlySteps DEF EdgeInv, HandlerSet, Unmask, At
<1>2. UNCHANGED <<pin, edge, inited, core, handler, ena, type, status, isr, seen, due, stray, calls>>
      /\ unmasked' \in BOOLEAN
  BY DEF Unmask, Done, regs
<1>3. use' \in [Pins -> Uses]
      /\ \A p \in Pins : use'[p] \in InUse => use[p] \in InUse \/ ena[p] # NoCore
  BY <1>1 DEF EdgeInv, TypeOK, Unmask, Uses, InUse
<1>4. /\ todo' \in [Tasks -> Seq(Steps)]
      /\ \A u \in Tasks : todo'[u] \in Early \/ Later(todo'[u])
      /\ \A u \in Tasks : todo'[u] # <<>> => pin'[u] \in Pins
      /\ \A u \in Tasks : Later(todo'[u]) /\ (\E i \in 1..Len(todo'[u]) : todo'[u][i] = "ena")
                         => handler'[pin'[u]]
  BY <1>1, <1>2, LaterStep DEF Unmask, Done
<1>5. TypeOK'
  BY <1>2, <1>3, <1>4 DEF EdgeInv, TypeOK
<1>6. HandlerSet'
  BY <1>2, <1>3, <1>4 DEF EdgeInv, HandlerSet
<1>7. NothingSeen' /\ NoLostEdge'
  BY <1>2 DEF EdgeInv, NothingSeen, NoLostEdge
<1> QED BY <1>5, <1>6, <1>7 DEF EdgeInv

\* The table, int_ena and int_type: int_ena is set only once the handler is.
LEMMA SetRegsEdgeInv ==
  ASSUME EdgeInv, NEW t \in Tasks, SetRegs(t)
  PROVE  EdgeInv'
<1> DEFINE p == pin[t]
<1>1. todo \in [Tasks -> Seq(Steps)] /\ todo[t] # <<>> /\ todo[t] \in Seq(Steps) /\ p \in Pins
  BY DEF EdgeInv, TypeOK, HandlerSet, SetRegs, At
<1>2. UNCHANGED <<pin, edge, inited, core, unmasked, status, isr, seen, use, due, stray, calls>>
      /\ todo' = [todo EXCEPT ![t] = Tail(@)]
  BY DEF SetRegs, Done, intr
<1>3. /\ handler' \in [Pins -> BOOLEAN] /\ ena' \in [Pins -> {0, 1, NoCore}] /\ type' \in [Pins -> 0..3]
      /\ \A q \in Pins : handler[q] => handler'[q]
  <2>1. handler \in [Pins -> BOOLEAN] /\ ena \in [Pins -> {0, 1, NoCore}] /\ type \in [Pins -> 0..3]
        /\ core \in {0, 1, NoCore}
    BY DEF EdgeInv, TypeOK
  <2>2. IsrCore \in {0, 1, NoCore}
    BY <2>1 DEF IsrCore
  <2>3. Mapped(edge[t]) => mapIrqType(edge[t]) \in 0..3
    BY DEF Mapped, mapIrqType
  <2>4. mapIrqType("none") = 0
    BY DEF mapIrqType
  <2>5. CASE At(t, "handler") /\ handler' = [handler EXCEPT ![p] = TRUE] /\ UNCHANGED <<ena, type>>
    BY <2>1, <2>5
  <2>6. CASE At(t, "ena") /\ ena' = [ena EXCEPT ![p] = IsrCore] /\ UNCHANGED <<handler, type>>
    BY <2>1, <2>2, <2>6
  <2>7. CASE At(t, "type") /\ type' = [type EXCEPT ![p] = IF Mapped(edge[t]) THEN mapIrqType(edge[t]) ELSE @]
             /\ UNCHANGED <<handler, ena>>
    BY <2>1, <2>3, <2>7, <1>1
  <2>8. CASE At(t, "enaOff") /\ ena' = [ena EXCEPT ![p] = NoCore] /\ UNCHANGED <<handler, type>>
    BY <2>1, <2>8
  <2>9. CASE At(t, "typeOff") /\ type' = [type EXCEPT ![p] = mapIrqType("none")] /\ UNCHANGED <<handler, ena>>
    <3>1. type' = [type EXCEPT ![p] = 0] /\ UNCHANGED <<handler, ena>>
      BY <2>4, <2>9
    <3>2. type \in [Pins -> 0..3] /\ 0 \in 0..3
      BY <2>1
    <3>3. type' \in [Pins -> 0..3]
      BY <3>1, <3>2, ZenonT(30)
    <3> QED BY <2>1, <3>1, <3>3
  <2> QED BY <2>5, <2>6, <2>7, <2>8, <2>9 DEF SetRegs
<1>4. /\ todo' \in [Tasks -> Seq(Steps)]
      /\ \A u \in Tasks : todo'[u] \in Early \/ Later(todo'[u])
      /\ \A u \in Tasks : todo'[u] # <<>> => pin'[u] \in Pins
      /\ \A u \in Tasks : Later(todo'[u]) /\ (\E i \in 1..Len(todo'[u]) : todo'[u][i] = "ena")
                         => handler'[pin'[u]]
  <2>1. CASE Later(todo[t])
    BY <2>1, <1>1, <1>2, <1>3, LaterStep
  <2>2. CASE ~Later(todo[t])
    <3>1. todo[t] \in Early
      BY <2>2 DEF EdgeInv, HandlerSet
    <3>2. Head(todo[t]) \in {"handler", "ena", "type", "enaOff", "typeOff"}
      BY DEF SetRegs, At
    <3>3. todo[t] = Tail(Tail(Attach)) /\ Head(todo[t]) = "handler"
      BY <3>1, <3>2, EarlySteps DEF Early
    <3>4. handler'[p]
      BY <1>1, <3>3 DEF SetRegs, At, EdgeInv, TypeOK
    <3>5. todo'[t] = Tail(Tail(Tail(Attach))) /\ \A u \in Tasks \ {t} : todo'[u] = todo[u]
      BY <1>1, <1>2, <3>3
    <3>6. todo' \in [Tasks -> Seq(Steps)]
      BY <1>1, <1>2, <3>3, EarlySteps
    <3>7. ASSUME NEW u \in Tasks
          PROVE  /\ todo'[u] \in Early \/ Later(todo'[u])
                 /\ todo'[u] # <<>> => pin'[u] \in Pins
                 /\ Later(todo'[u]) /\ (\E i \in 1..Len(todo'[u]) : todo'[u][i] = "ena") => handler'[pin'[u]]
      <4>1. CASE u = t
        BY <4>1, <1>1, <1>2, <3>4, <3>5, EarlySteps
      <4>2. CASE u # t
        <5>1. todo'[u] = todo[u] /\ pin'[u] = pin[u]
          BY <4>2, <1>2, <3>5
        <5>2. todo[u] # <<>> => pin[u] \in Pins
          BY DEF EdgeInv, HandlerSet
        <5>3. (\E i \in 1..Len(todo[u]) : todo[u][i] = "ena") => todo[u] # <<>>
          OBVIOUS
        <5> QED BY <5>1, <5>2, <5>3, <1>3 DEF EdgeInv, HandlerSet
      <4> QED BY <4>1, <4>2
    <3> QED BY <3>6, <3>7
  <2> QED BY <2>1, <2>2
<1>5. \A q \in Pins : ena'[q] # NoCore => handler'[q]
  <2>1. CASE At(t, "ena") /\ ena' = [ena EXCEPT ![p] = IsrCore] /\ UNCHANGED <<handler, type>>
    <3>1. todo[t][1] = "ena" /\ 1 \in 1..Len(todo[t])
      BY <2>1, <1>1 DEF At
    <3>2. Later(todo[t])
      BY <2>1, EarlySteps DEF EdgeInv, HandlerSet, At
    <3>3. handler[p]
      BY <3>1, <3>2 DEF EdgeInv, HandlerSet
    <3> QED BY <2>1, <3>3 DEF EdgeInv, HandlerSet, TypeOK
  <2>2. CASE \A q \in Pins : ena'[q] = ena[q] \/ ena'[q] = NoCore
    BY <2>2, <1>3 DEF EdgeInv, HandlerSet
  <2> QED BY <2>1, <2>2 DEF SetRegs, EdgeInv, TypeOK
<1>6. TypeOK'
  BY <1>2, <1>3, <1>4 DEF EdgeInv, TypeOK
<1>7. HandlerSet'
  BY <1>2, <1>3, <1>4, <1>5 DEF EdgeInv, TypeOK, HandlerSet
<1>8. NothingSeen' /\ NoLostEdge'
  BY <1>2 DEF EdgeInv, NothingSeen, NoLostEdge
<1> QED BY <1>6, <1>7, <1>8 DEF EdgeInv

-----------------------------------------------------------------------------
(* Edges and the service routine.                                          *)

\* Where only edges and the routine's own state change, the handlers stay set.
LEMMA HandlersKept ==
  ASSUME EdgeInv, UNCHANGED <<todo, pin, ena, handler, use>>,
         \A p \in due' : p \in due \/ (p \in Pins /\ use[p] \in InUse)
  PROVE  HandlerSet'
BY DEF EdgeInv, HandlerSet

\* A latched edge is due only on an attached pin, which has a handler.
LEMMA EdgeEdgeInv ==
  ASSUME EdgeInv, NEW p \in Pins, NEW e \in {1, 2}, Edge(p, e)
  PROVE  EdgeInv'
<1>1. UNCHANGED <<todo, pin, edge, inited, core, unmasked, handler, ena, type, isr, seen, use, stray, calls>>
  BY DEF Edge, task, intr, regs
<1>2. status' = status \cup {p} /\ due' \subseteq due \cup {p} /\ \A q \in due' : q \in due \/ use[q] \in InUse
  BY DEF Edge
<1>3. TypeOK'
  BY <1>1, <1>2 DEF EdgeInv, TypeOK
<1>4. HandlerSet'
  BY <1>1, <1>2, HandlersKept
<1>5. NothingSeen' /\ NoLostEdge'
  BY <1>1, <1>2 DEF EdgeInv, NothingSeen, NoLostEdge
<1> QED BY <1>3, <1>4, <1>5 DEF EdgeInv

\* The routine reads before it clears, and clears only what it has read.
LEMMA ReadEdgeInv ==
  ASSUME EdgeInv, Enter \/ ReadHigh \/ ClearStatus
  PROVE  EdgeInv'
<1>1. UNCHANGED <<todo, pin, edge, inited, core, unmasked, handler, ena, type, use, due, stray, calls>>
  BY DEF Enter, ReadHigh, ClearStatus, task, intr, regs
<1>2. /\ isr' \in {"readHigh", "clearLow", "clearHigh", "walk"}
      /\ status' \subseteq status /\ seen' \subseteq seen \cup status
      /\ status \ status' \subseteq seen' /\ seen \subseteq seen'
  BY DEF Enter, ReadHigh, ClearStatus, Clear, EdgeInv, NothingSeen
<1>3. TypeOK'
  BY <1>1, <1>2 DEF EdgeInv, TypeOK
<1>4. HandlerSet'
  BY <1>1, HandlersKept
<1>5. NothingSeen' /\ NoLostEdge'
  BY <1>1, <1>2 DEF EdgeInv, NothingSeen, NoLostEdge
<1> QED BY <1>3, <1>4, <1>5 DEF EdgeInv

\* A pin that leaves the walk has run its handler, for a pin that is due has one.
LEMMA WalkEdgeInv ==
  ASSUME EdgeInv, Walk
  PROVE  EdgeInv'
<1>1. UNCHANGED <<todo, pin, edge, inited, core, unmasked, handler, ena, type, status, isr, use, calls>>
  BY DEF Walk, task, intr, regs
<1>2. PICK p \in seen :
        /\ seen' = seen \ {p}
        /\ due' = IF handler[p] THEN due \ {p} ELSE due
        /\ stray' = [stray EXCEPT ![p] = IF handler[p] /\ use[p] = "detached" /\ @ < 3 THEN @ + 1 ELSE @]
  BY DEF Walk
<1>3. p \in due => handler[p]
  BY DEF EdgeInv, HandlerSet
<1>4. stray' \in [Pins -> 0..3]
  BY <1>2 DEF EdgeInv, TypeOK
<1>5. seen' \subseteq Pins /\ due' \subseteq Pins
  BY <1>2 DEF EdgeInv, TypeOK
<1>6. TypeOK'
  BY <1>1, <1>4, <1>5 DEF EdgeInv, TypeOK
<1>7. HandlerSet'
  BY <1>1, <1>2, HandlersKept
<1>8. isr # "idle"
  BY DEF Walk
<1>9. NothingSeen' /\ NoLostEdge'
  BY <1>1, <1>2, <1>3, <1>8 DEF EdgeInv, NothingSeen, NoLostEdge
<1> QED BY <1>6, <1>7, <1>9 DEF EdgeInv

\* The routine returns with nothing left of what it read.
LEMMA LeaveEdgeInv ==
  ASSUME EdgeInv, Leave
  PROVE  EdgeInv'
<1>1. UNCHANGED <<todo, pin, edge, inited, core, unmasked, handler, ena, type, status, seen, use, due, stray, calls>>
      /\ seen = {} /\ isr' = "idle"
  BY DEF Leave, task, intr, regs
<1>2. TypeOK'
  BY <1>1 DEF EdgeInv, TypeOK
<1>3. HandlerSet'
  BY <1>1, HandlersKept
<1>4. NothingSeen' /\ NoLostEdge'
  BY <1>1 DEF EdgeInv, NothingSeen, NoLostEdge
<1> QED BY <1>2, <1>3, <1>4 DEF EdgeInv

LEMMA NextEdgeInv == EdgeInv /\ [Next]_vars => EdgeInv'
<1> SUFFICES ASSUME EdgeInv, [Next]_vars PROVE EdgeInv'
  OBVIOUS
<1>1. ASSUME NEW t \in Tasks, NEW p \in Pins, detachIrqHandler(t, p) PROVE EdgeInv'
  BY <1>1, CallEdgeInv DEF detachIrqHandler
<1>2. ASSUME NEW t \in Tasks, NEW p \in Pins, NEW e \in Edges, attachIrqHandler(t, p, e) PROVE EdgeInv'
  BY <1>2, CallEdgeInv DEF attachIrqHandler
<1>3. ASSUME NEW t \in Tasks, Step(t) PROVE EdgeInv'
  BY <1>3, InitIrqsEdgeInv, AllocEdgeInv, CheckEdgeInv, MaskEdgeInv, SetRegsEdgeInv, UnmaskEdgeInv DEF Step
<1>4. ASSUME NEW p \in Pins, NEW e \in {1, 2}, Edge(p, e) PROVE EdgeInv'
  BY <1>4, EdgeEdgeInv
<1>5. CASE Isr
  BY <1>5, ReadEdgeInv, WalkEdgeInv, LeaveEdgeInv DEF Isr
<1>6. CASE UNCHANGED vars
  <2>1. UNCHANGED <<todo, pin, edge, inited, core, unmasked, handler, ena, type, status, isr, seen, use, due, stray, calls>>
    BY <1>6 DEF vars, task, intr, regs
  <2>2. TypeOK'
    BY <2>1 DEF EdgeInv, TypeOK
  <2>3. HandlerSet'
    BY <2>1, HandlersKept
  <2>4. NothingSeen' /\ NoLostEdge'
    BY <2>1 DEF EdgeInv, NothingSeen, NoLostEdge
  <2> QED BY <2>2, <2>3, <2>4 DEF EdgeInv
<1> QED BY <1>1, <1>2, <1>3, <1>4, <1>5, <1>6 DEF Next

-----------------------------------------------------------------------------
(* The handler of a detached pin.                                          *)

\* What is left of an attach and of a detach, by the step that comes next.
AtInit    == <<"init", "alloc", "handler", "mask", "ena", "type", "unmask">>
AtAlloc   == <<"alloc", "handler", "mask", "ena", "type", "unmask">>
AtHandler == <<"handler", "mask", "ena", "type", "unmask">>
AtMask    == <<"mask", "ena", "type", "unmask">>
AtEna     == <<"ena", "type", "unmask">>
AtType    == <<"type", "unmask">>
AtCheck   == <<"check", "mask", "enaOff", "typeOff", "unmask">>
AtMaskOff == <<"mask", "enaOff", "typeOff", "unmask">>
AtEnaOff  == <<"enaOff", "typeOff", "unmask">>
AtTypeOff == <<"typeOff", "unmask">>
AtUnmask  == <<"unmask">>

Rests == {<<>>, AtInit, AtAlloc, AtHandler, AtMask, AtEna, AtType,
          AtCheck, AtMaskOff, AtEnaOff, AtTypeOff, AtUnmask}

\* A pin is worked on by one task, and counts as busy until that task is done.
OwnPins ==
  /\ \A t \in Tasks : todo[t] \in Rests
  /\ \A t \in Tasks : todo[t] # <<>> => pin[t] \in Pins /\ use[pin[t]] \in {"busy", "early"}
  /\ \A t, u \in Tasks : todo[t] # <<>> /\ todo[u] # <<>> /\ pin[t] = pin[u] => t = u

\* No edge is latched for a detached pin: an attach is at its end only with int_ena set, so
\* that a call that ends without has cleared int_type.
NoNewEdge ==
  /\ \A t \in Tasks : todo[t] = AtType   => ena[pin[t]] # NoCore
  /\ \A t \in Tasks : todo[t] = AtUnmask => ena[pin[t]] # NoCore \/ type[pin[t]] = 0
  /\ \A p \in Pins : use[p] = "detached" => type[p] = 0

\* The routine has read that p is latched, and has not cleared it yet.
Taken(p) ==
  /\ p \in seen
  /\ \/ p \in Low  /\ isr \in {"readHigh", "clearLow"}
     \/ p \in High /\ isr \in {"clearLow", "clearHigh"}

\* The runs of p's handler that are still to come, once no edge is latched any more.
ToCome(p) == (IF p \in seen THEN 1 ELSE 0) + (IF p \in status /\ ~Taken(p) THEN 1 ELSE 0)

LowFirst == isr = "readHigh" => seen \subseteq Low

Counted ==
  /\ \A p \in Pins : use[p] # "detached" => stray[p] = 0
  /\ \A p \in Pins : use[p] = "detached" => stray[p] + ToCome(p) <= 2

StrayInv == OwnPins /\ NoNewEdge /\ LowFirst /\ Counted

\* What is left after each step.
LEMMA RestSteps ==
  /\ Attach = AtInit /\ Detach = AtCheck
  /\ AtInit # <<>>    /\ Head(AtInit) = "init"       /\ Tail(AtInit) = AtAlloc
  /\ AtAlloc # <<>>   /\ Head(AtAlloc) = "alloc"     /\ Tail(AtAlloc) = AtHandler
  /\ AtHandler # <<>> /\ Head(AtHandler) = "handler" /\ Tail(AtHandler) = AtMask
  /\ AtMask # <<>>    /\ Head(AtMask) = "mask"       /\ Tail(AtMask) = AtEna
  /\ AtEna # <<>>     /\ Head(AtEna) = "ena"         /\ Tail(AtEna) = AtType
  /\ AtType # <<>>    /\ Head(AtType) = "type"       /\ Tail(AtType) = AtUnmask
  /\ AtCheck # <<>>   /\ Head(AtCheck) = "check"     /\ Tail(AtCheck) = AtMaskOff
  /\ AtMaskOff # <<>> /\ Head(AtMaskOff) = "mask"    /\ Tail(AtMaskOff) = AtEnaOff
  /\ AtEnaOff # <<>>  /\ Head(AtEnaOff) = "enaOff"   /\ Tail(AtEnaOff) = AtTypeOff
  /\ AtTypeOff # <<>> /\ Head(AtTypeOff) = "typeOff" /\ Tail(AtTypeOff) = AtUnmask
  /\ AtUnmask # <<>>  /\ Head(AtUnmask) = "unmask"   /\ Tail(AtUnmask) = <<>>
<1>1. Attach = AtInit /\ Detach = AtCheck
  BY DEF Attach, Detach, AtInit, AtCheck
<1>2. AtInit # <<>> /\ Head(AtInit) = "init" /\ Tail(AtInit) = AtAlloc
  BY DEF AtInit, AtAlloc
<1>3. AtAlloc # <<>> /\ Head(AtAlloc) = "alloc" /\ Tail(AtAlloc) = AtHandler
  BY DEF AtAlloc, AtHandler
<1>4. AtHandler # <<>> /\ Head(AtHandler) = "handler" /\ Tail(AtHandler) = AtMask
  BY DEF AtHandler, AtMask
<1>5. AtMask # <<>> /\ Head(AtMask) = "mask" /\ Tail(AtMask) = AtEna
  BY DEF AtMask, AtEna
<1>6. AtEna # <<>> /\ Head(AtEna) = "ena" /\ Tail(AtEna) = AtType
  BY DEF AtEna, AtType
<1>7. AtType # <<>> /\ Head(AtType) = "type" /\ Tail(AtType) = AtUnmask
  BY DEF AtType, AtUnmask
<1>8. AtCheck # <<>> /\ Head(AtCheck) = "check" /\ Tail(AtCheck) = AtMaskOff
  BY DEF AtCheck, AtMaskOff
<1>9. AtMaskOff # <<>> /\ Head(AtMaskOff) = "mask" /\ Tail(AtMaskOff) = AtEnaOff
  BY DEF AtMaskOff, AtEnaOff
<1>10. AtEnaOff # <<>> /\ Head(AtEnaOff) = "enaOff" /\ Tail(AtEnaOff) = AtTypeOff
  BY DEF AtEnaOff, AtTypeOff
<1>11. AtTypeOff # <<>> /\ Head(AtTypeOff) = "typeOff" /\ Tail(AtTypeOff) = AtUnmask
  BY DEF AtTypeOff, AtUnmask
<1>12. AtUnmask # <<>> /\ Head(AtUnmask) = "unmask" /\ Tail(AtUnmask) = <<>>
  BY DEF AtUnmask
<1> QED BY <1>1, <1>2, <1>3, <1>4, <1>5, <1>6, <1>7, <1>8, <1>9, <1>10, <1>11, <1>12

\* A step of t leaves the other tasks on their own pins.
LEMMA OwnPinsKept ==
  ASSUME OwnPins, EdgeInv, NEW t \in Tasks, NEW rest \in Rests, todo[t] # <<>>,
         todo' = [todo EXCEPT ![t] = rest], pin' = pin,
         \A p \in Pins \ {pin[t]} : use[p] \in {"busy", "early"} => use'[p] \in {"busy", "early"},
         rest # <<>> => use'[pin[t]] \in {"busy", "early"}
  PROVE  OwnPins' /\ todo'[t] = rest /\ \A u \in Tasks \ {t} : todo'[u] = todo[u]
<1>1. todo'[t] = rest /\ \A u \in Tasks \ {t} : todo'[u] = todo[u]
  BY DEF EdgeInv, TypeOK
<1>2. \A u \in Tasks : todo'[u] \in Rests
  BY <1>1 DEF OwnPins
<1>3. ASSUME NEW u \in Tasks, todo'[u] # <<>>
      PROVE  todo[u] # <<>> /\ pin'[u] \in Pins /\ use'[pin'[u]] \in {"busy", "early"}
  <2>1. todo[u] # <<>>
    BY <1>1, <1>3
  <2>2. CASE u = t
    BY <1>1, <1>3, <2>1, <2>2 DEF OwnPins
  <2>3. CASE u # t
    <3>1. pin[u] \in Pins \ {pin[t]} /\ use[pin[u]] \in {"busy", "early"}
      BY <2>1, <2>3 DEF OwnPins
    <3> QED BY <2>1, <3>1
  <2> QED BY <2>2, <2>3
<1>4. \A u, v \in Tasks : todo'[u] # <<>> /\ todo'[v] # <<>> /\ pin'[u] = pin'[v] => u = v
  BY <1>3 DEF OwnPins
<1> QED BY <1>1, <1>2, <1>3, <1>4 DEF OwnPins

\* Where registers and the tasks at their ends stay, nothing new is latched.
LEMMA NoNewEdgeKept ==
  ASSUME NoNewEdge, UNCHANGED <<ena, type>>, UNCHANGED pin,
         \A u \in Tasks : todo'[u] \in {AtType, AtUnmask} => todo'[u] = todo[u],
         \A p \in Pins : use'[p] = "detached" => use[p] = "detached"
  PROVE  NoNewEdge'
<1>1. ASSUME NEW u \in Tasks, todo'[u] = AtType PROVE ena'[pin'[u]] # NoCore
  BY <1>1 DEF NoNewEdge
<1>2. ASSUME NEW u \in Tasks, todo'[u] = AtUnmask PROVE ena'[pin'[u]] # NoCore \/ type'[pin'[u]] = 0
  BY <1>2 DEF NoNewEdge
<1>3. \A p \in Pins : use'[p] = "detached" => type'[p] = 0
  BY DEF NoNewEdge
<1> QED BY <1>1, <1>2, <1>3 DEF NoNewEdge

\* Nothing is counted in a step of a task that leaves detached pins detached.
LEMMA CountedKept ==
  ASSUME EdgeInv, LowFirst, Counted, UNCHANGED <<status, seen, isr, stray>>,
         \A p \in Pins : use[p] = "detached" => use'[p] = "detached"
  PROVE  LowFirst' /\ Counted'
<1>1. \A p \in Pins : ToCome(p)' = ToCome(p)
  BY DEF ToCome, Taken, Low, High
<1>2. \A p \in Pins : ToCome(p) \in 0..2
  BY DEF ToCome
<1>3. ASSUME NEW p \in Pins, use'[p] # "detached" PROVE stray'[p] = 0
  BY <1>3 DEF Counted
<1>4. ASSUME NEW p \in Pins, use'[p] = "detached" PROVE stray'[p] + ToCome(p)' <= 2
  <2>1. CASE use[p] = "detached"
    BY <1>1, <2>1 DEF Counted
  <2>2. CASE use[p] # "detached"
    <3>1. stray'[p] = 0
      BY <2>2 DEF Counted
    <3>2. ToCome(p)' \in 0..2
      BY <1>1, <1>2
    <3> QED BY <3>1, <3>2
  <2> QED BY <2>1, <2>2
<1>5. LowFirst'
  BY DEF LowFirst, Low
<1> QED BY <1>3, <1>4, <1>5 DEF Counted

LEMMA InitStrayInv == Init => StrayInv
<1> SUFFICES ASSUME Init PROVE StrayInv
  OBVIOUS
<1>1. \A t \in Tasks : todo[t] = <<>>
  BY DEF Init
<1>2. \A p \in Pins : use[p] = "never" /\ stray[p] = 0
  BY DEF Init
<1>3. OwnPins
  BY <1>1 DEF OwnPins, Rests
<1>4. NoNewEdge
  BY <1>1, <1>2, RestSteps DEF NoNewEdge
<1>5. LowFirst /\ Counted
  BY <1>2 DEF Init, LowFirst, Counted
<1> QED BY <1>3, <1>4, <1>5 DEF StrayInv

\* A call takes a pin that nobody works on.
LEMMA CallStrayInv ==
  ASSUME EdgeInv, StrayInv, NEW t \in Tasks, NEW p \in Pins, NEW e \in Edges \cup {"none"},
         NEW program \in {Attach, Detach}, Call(t, p, e, program)
  PROVE  StrayInv'
<1>1. program \in {AtInit, AtCheck} /\ program \notin {<<>>, AtType, AtUnmask}
  BY RestSteps
<1>2. /\ todo'[t] = program /\ pin'[t] = p
      /\ \A u \in Tasks \ {t} : todo'[u] = todo[u] /\ pin'[u] = pin[u]
      /\ use'[p] = "busy" /\ stray'[p] = 0
      /\ \A q \in Pins \ {p} : use'[q] = use[q] /\ stray'[q] = stray[q]
  BY DEF Call, EdgeInv, TypeOK
<1>3. UNCHANGED <<ena, type, status, isr, seen>>
  BY DEF Call, regs
<1>4. use[p] \notin {"busy", "early"} /\ todo[t] = <<>>
  BY DEF Call
<1>5. \A u \in Tasks \ {t} : todo'[u] # <<>> => pin[u] \in Pins \ {p}
  BY <1>2, <1>4 DEF StrayInv, OwnPins
<1>6. OwnPins'
  <2>1. \A u \in Tasks : todo'[u] \in Rests
    BY <1>1, <1>2 DEF StrayInv, OwnPins, Rests
  <2>2. ASSUME NEW u \in Tasks, todo'[u] # <<>>
        PROVE  pin'[u] \in Pins /\ use'[pin'[u]] \in {"busy", "early"}
    <3>1. CASE u = t
      BY <1>2, <3>1
    <3>2. CASE u # t
      BY <1>2, <1>5, <2>2, <3>2 DEF StrayInv, OwnPins
    <3> QED BY <3>1, <3>2
  <2>3. ASSUME NEW u \in Tasks, NEW v \in Tasks, todo'[u] # <<>>, todo'[v] # <<>>, pin'[u] = pin'[v]
        PROVE  u = v
    BY <1>2, <1>5, <2>3 DEF StrayInv, OwnPins
  <2> QED BY <2>1, <2>2, <2>3 DEF OwnPins
<1>7. NoNewEdge'
  <2>1. ASSUME NEW u \in Tasks, todo'[u] = AtType PROVE ena'[pin'[u]] # NoCore
    BY <1>1, <1>2, <1>3, <2>1 DEF StrayInv, NoNewEdge
  <2>2. ASSUME NEW u \in Tasks, todo'[u] = AtUnmask PROVE ena'[pin'[u]] # NoCore \/ type'[pin'[u]] = 0
    BY <1>1, <1>2, <1>3, <2>2 DEF StrayInv, NoNewEdge
  <2>3. \A q \in Pins : use'[q] = "detached" => type'[q] = 0
    BY <1>2, <1>3 DEF StrayInv, NoNewEdge
  <2> QED BY <2>1, <2>2, <2>3 DEF NoNewEdge
<1>8. LowFirst' /\ Counted'
  <2>1. \A q \in Pins : ToCome(q)' = ToCome(q)
    BY <1>3 DEF ToCome, Taken, Low, High
  <2>2. Counted'
    BY <1>2, <2>1 DEF StrayInv, Counted
  <2>3. LowFirst'
    BY <1>3 DEF StrayInv, LowFirst, Low
  <2> QED BY <2>2, <2>3
<1> QED BY <1>6, <1>7, <1>8 DEF StrayInv

\* The steps that set neither int_ena nor int_type, and are not the last of a call.
LEMMA InnerStrayInv ==
  ASSUME EdgeInv, StrayInv, NEW t \in Tasks, InitIrqs(t) \/ Alloc(t) \/ Check(t) \/ Mask(t)
  PROVE  StrayInv'
<1>1. todo[t] # <<>> /\ todo[t] \in Rests /\ todo \in [Tasks -> Seq(Steps)] /\ use \in [Pins -> Uses]
  BY DEF InitIrqs, Alloc, Check, Mask, At, StrayInv, OwnPins, EdgeInv, TypeOK
<1>2. pin[t] \in Pins /\ use[pin[t]] \in {"busy", "early"}
  BY <1>1 DEF StrayInv, OwnPins
<1>3. UNCHANGED <<pin, ena, type, status, isr, seen, stray>>
  BY DEF InitIrqs, Alloc, Check, Mask, Done, intr, regs
<1>4. PICK rest \in Rests \ {AtType, AtUnmask} :
        /\ todo' = [todo EXCEPT ![t] = rest]
        /\ rest = <<>> \/ ~Check(t) \/ use' = use
        /\ Check(t) => use' = use \/ use' = [use EXCEPT ![pin[t]] = "never"]
  <2>1. CASE InitIrqs(t)
    <3>1. todo[t] = AtInit
      BY <1>1, <2>1, RestSteps DEF InitIrqs, At, Rests
    <3>2. todo' = [todo EXCEPT ![t] = IF inited THEN AtHandler ELSE AtAlloc]
      BY <2>1, <3>1, RestSteps DEF InitIrqs
    <3>3. ~Check(t)
      BY <3>1, RestSteps DEF Check, At
    <3> QED BY <3>2, <3>3, RestSteps DEF Rests
  <2>2. CASE Alloc(t)
    <3>1. todo[t] = AtAlloc
      BY <1>1, <2>2, RestSteps DEF Alloc, At, Rests
    <3>2. todo' = [todo EXCEPT ![t] = AtHandler]
      BY <2>2, <3>1, RestSteps DEF Alloc, Done
    <3>3. ~Check(t)
      BY <3>1, RestSteps DEF Check, At
    <3> QED BY <3>2, <3>3, RestSteps DEF Rests
  <2>3. CASE Check(t)
    <3>1. todo[t] = AtCheck
      BY <1>1, <2>3, RestSteps DEF Check, At, Rests
    <3>2. CASE inited
      <4>1. todo' = [todo EXCEPT ![t] = AtMaskOff] /\ use' = use
        BY <2>3, <3>1, <3>2, RestSteps DEF Check, Done
      <4> QED BY <4>1, RestSteps DEF Rests
    <3>3. CASE ~inited
      <4>1. todo' = [todo EXCEPT ![t] = <<>>] /\ use' = [use EXCEPT ![pin[t]] = "never"]
        BY <2>3, <3>3 DEF Check
      <4> QED BY <4>1, RestSteps DEF Rests
    <3> QED BY <3>2, <3>3
  <2>4. CASE Mask(t)
    <3>1. todo[t] \in {AtMask, AtMaskOff}
      BY <1>1, <2>4, RestSteps DEF Mask, At, Rests
    <3>2. \E rest \in {AtEna, AtEnaOff} : todo' = [todo EXCEPT ![t] = rest]
      BY <2>4, <3>1, RestSteps DEF Mask, Done
    <3>3. ~Check(t)
      BY <3>1, RestSteps DEF Check, At
    <3> QED BY <3>2, <3>3, RestSteps DEF Rests
  <2> QED BY <2>1, <2>2, <2>3, <2>4
<1>5. /\ \A p \in Pins \ {pin[t]} : use[p] \in {"busy", "early"} => use'[p] \in {"busy", "early"}
      /\ rest # <<>> => use'[pin[t]] \in {"busy", "early"}
      /\ \A p \in Pins : use'[p] = "detached" <=> use[p] = "detached"
  <2>1. CASE Alloc(t)
    <3>1. \A p \in Pins : use'[p] = IF p = pin[t] THEN use[p] ELSE Overtaken(use[p])
      BY <2>1 DEF Alloc
    <3>2. \A u \in Uses : /\ u \in {"busy", "early"} => Overtaken(u) \in {"busy", "early"}
                          /\ Overtaken(u) = "detached" <=> u = "detached"
      BY DEF Overtaken, Uses
    <3> QED BY <1>1, <1>2, <3>1, <3>2
  <2>2. CASE Check(t)
    BY <1>1, <1>2, <1>4, <2>2
  <2>3. CASE ~Alloc(t) /\ ~Check(t)
    <3>1. use' = use
      BY <2>3 DEF InitIrqs, Mask
    <3> QED BY <1>2, <3>1
  <2> QED BY <2>1, <2>2, <2>3
<1>6. OwnPins' /\ todo'[t] = rest /\ \A u \in Tasks \ {t} : todo'[u] = todo[u]
  BY <1>1, <1>3, <1>4, <1>5, OwnPinsKept DEF StrayInv
<1>7. NoNewEdge'
  BY <1>3, <1>4, <1>5, <1>6, NoNewEdgeKept DEF StrayInv
<1>8. LowFirst' /\ Counted'
  BY <1>3, <1>5, CountedKept DEF StrayInv
<1> QED BY <1>6, <1>7, <1>8 DEF StrayInv

\* An attach sets int_ena before int_type; a detach clears both, int_type last.
LEMMA SetRegsStrayInv ==
  ASSUME EdgeInv, StrayInv, NEW t \in Tasks, SetRegs(t)
  PROVE  StrayInv'
<1> DEFINE p == pin[t]
<1>1. /\ todo[t] # <<>> /\ todo[t] \in Rests
      /\ ena \in [Pins -> {0, 1, NoCore}] /\ type \in [Pins -> 0..3] /\ core \in {0, 1, NoCore}
  BY DEF SetRegs, At, StrayInv, OwnPins, EdgeInv, TypeOK
<1>2. p \in Pins /\ use[p] \in {"busy", "early"}
  BY <1>1 DEF StrayInv, OwnPins
<1>3. UNCHANGED <<pin, status, isr, seen, stray, use>> /\ todo' = [todo EXCEPT ![t] = Tail(@)]
  BY DEF SetRegs, Done, intr
<1>4. /\ \A q \in Pins \ {p} : ena'[q] = ena[q] /\ type'[q] = type[q]
      /\ \E rest \in Rests :
           /\ rest # <<>> /\ todo' = [todo EXCEPT ![t] = rest]
           /\ rest = AtType => ena'[p] # NoCore
           /\ rest = AtUnmask => ena'[p] # NoCore \/ type'[p] = 0
  <2>1. CASE At(t, "handler") /\ UNCHANGED <<ena, type>>
    <3>1. todo[t] = AtHandler
      BY <1>1, <2>1, RestSteps DEF At, Rests
    <3>2. todo' = [todo EXCEPT ![t] = AtMask]
      BY <1>3, <3>1, RestSteps
    <3> QED BY <2>1, <3>2, RestSteps DEF Rests
  <2>2. CASE At(t, "ena") /\ ena' = [ena EXCEPT ![p] = IsrCore] /\ UNCHANGED <<handler, type>>
    <3>1. todo[t] = AtEna
      BY <1>1, <2>2, RestSteps DEF At, Rests
    <3>2. todo' = [todo EXCEPT ![t] = AtType]
      BY <1>3, <3>1, RestSteps
    <3>3. IsrCore # NoCore
      BY DEF IsrCore, NoCore
    <3>4. ena'[p] # NoCore /\ \A q \in Pins \ {p} : ena'[q] = ena[q]
      BY <1>1, <1>2, <2>2, <3>3
    <3> QED BY <2>2, <3>2, <3>4, RestSteps DEF Rests
  <2>3. CASE At(t, "type") /\ type' = [type EXCEPT ![p] = IF Mapped(edge[t]) THEN mapIrqType(edge[t]) ELSE @]
             /\ UNCHANGED <<handler, ena>>
    <3>1. todo[t] = AtType
      BY <1>1, <2>3, RestSteps DEF At, Rests
    <3>2. todo' = [todo EXCEPT ![t] = AtUnmask]
      BY <1>3, <3>1, RestSteps
    <3>3. ena'[p] # NoCore
      BY <2>3, <3>1 DEF StrayInv, NoNewEdge
    <3>4. \A q \in Pins \ {p} : type'[q] = type[q]
      BY <1>1, <2>3
    <3> QED BY <2>3, <3>2, <3>3, <3>4, RestSteps DEF Rests
  <2>4. CASE At(t, "enaOff") /\ ena' = [ena EXCEPT ![p] = NoCore] /\ UNCHANGED <<handler, type>>
    <3>1. todo[t] = AtEnaOff
      BY <1>1, <2>4, RestSteps DEF At, Rests
    <3>2. todo' = [todo EXCEPT ![t] = AtTypeOff]
      BY <1>3, <3>1, RestSteps
    <3>3. \A q \in Pins \ {p} : ena'[q] = ena[q]
      BY <1>1, <2>4
    <3> QED BY <2>4, <3>2, <3>3, RestSteps DEF Rests
  <2>5. CASE At(t, "typeOff") /\ type' = [type EXCEPT ![p] = mapIrqType("none")] /\ UNCHANGED <<handler, ena>>
    <3>1. todo[t] = AtTypeOff
      BY <1>1, <2>5, RestSteps DEF At, Rests
    <3>2. todo' = [todo EXCEPT ![t] = AtUnmask]
      BY <1>3, <3>1, RestSteps
    <3>3. mapIrqType("none") = 0
      BY DEF mapIrqType
    <3>4. type'[p] = 0 /\ \A q \in Pins \ {p} : type'[q] = type[q]
      BY <1>1, <1>2, <2>5, <3>3
    <3> QED BY <2>5, <3>2, <3>4, RestSteps DEF Rests
  <2> QED BY <2>1, <2>2, <2>3, <2>4, <2>5 DEF SetRegs
<1>5. PICK rest \in Rests :
        /\ rest # <<>> /\ todo' = [todo EXCEPT ![t] = rest]
        /\ rest = AtType => ena'[p] # NoCore
        /\ rest = AtUnmask => ena'[p] # NoCore \/ type'[p] = 0
  BY <1>4
<1>6. OwnPins' /\ todo'[t] = rest /\ \A u \in Tasks \ {t} : todo'[u] = todo[u]
  BY <1>1, <1>2, <1>3, <1>5, OwnPinsKept DEF StrayInv
<1>7. \A u \in Tasks \ {t} : todo[u] # <<>> => pin[u] \in Pins \ {p}
  BY <1>1 DEF StrayInv, OwnPins
<1>8. NoNewEdge'
  <2> DEFINE q(u) == pin[u]
  <2>0. ASSUME NEW u \in Tasks, u # t, todo'[u] # <<>>
        PROVE  /\ todo'[u] = todo[u] /\ pin'[u] = q(u)
               /\ ena'[q(u)] = ena[q(u)] /\ type'[q(u)] = type[q(u)]
    <3>1. todo'[u] = todo[u] /\ u \in Tasks \ {t}
      BY <1>6, <2>0
    <3>2. pin' = pin /\ q(u) \in Pins \ {p}
      BY <1>3, <1>7, <2>0, <3>1
    <3> QED BY <1>4, <3>1, <3>2
  <2>1. ASSUME NEW u \in Tasks, todo'[u] = AtType PROVE ena'[pin'[u]] # NoCore
    <3>1. CASE u = t
      BY <1>3, <1>5, <1>6, <2>1, <3>1
    <3>2. CASE u # t
      <4>1. todo[u] = AtType /\ ena'[pin'[u]] = ena[pin[u]]
        BY <2>0, <2>1, <3>2, RestSteps
      <4> QED BY <4>1 DEF StrayInv, NoNewEdge
    <3> QED BY <3>1, <3>2
  <2>2. ASSUME NEW u \in Tasks, todo'[u] = AtUnmask PROVE ena'[pin'[u]] # NoCore \/ type'[pin'[u]] = 0
    <3>1. CASE u = t
      BY <1>3, <1>5, <1>6, <2>2, <3>1
    <3>2. CASE u # t
      <4>1. todo[u] = AtUnmask /\ ena'[pin'[u]] = ena[pin[u]] /\ type'[pin'[u]] = type[pin[u]]
        BY <2>0, <2>2, <3>2, RestSteps
      <4> QED BY <4>1 DEF StrayInv, NoNewEdge
    <3> QED BY <3>1, <3>2
  <2>3. \A o \in Pins : use'[o] = "detached" => type'[o] = 0
    BY <1>2, <1>3, <1>4 DEF StrayInv, NoNewEdge
  <2> QED BY <2>1, <2>2, <2>3 DEF NoNewEdge
<1>9. LowFirst' /\ Counted'
  BY <1>3, CountedKept DEF StrayInv
<1> QED BY <1>6, <1>8, <1>9 DEF StrayInv

\* A detach is over only when int_type is clear, and nothing has been counted until then.
LEMMA UnmaskStrayInv ==
  ASSUME EdgeInv, StrayInv, NEW t \in Tasks, Unmask(t)
  PROVE  StrayInv'
<1> DEFINE p == pin[t]
<1>1. todo[t] = AtUnmask /\ use \in [Pins -> Uses]
  BY RestSteps DEF Unmask, At, StrayInv, OwnPins, Rests, EdgeInv, TypeOK
<1>2. p \in Pins /\ use[p] \in {"busy", "early"} /\ todo[t] # <<>>
  BY <1>1, RestSteps DEF StrayInv, OwnPins
<1>3. UNCHANGED <<pin, ena, type, status, isr, seen, stray>> /\ todo' = [todo EXCEPT ![t] = <<>>]
  BY <1>1, RestSteps DEF Unmask, Done, regs
<1>4. /\ use'[p] = "detached" => ena[p] = NoCore
      /\ \A q \in Pins \ {p} : use'[q] = use[q]
  BY <1>1, <1>2 DEF Unmask
<1>5. OwnPins' /\ todo'[t] = <<>> /\ \A u \in Tasks \ {t} : todo'[u] = todo[u]
  <2>1. <<>> \in Rests
    BY DEF Rests
  <2> QED BY <1>2, <1>3, <1>4, <2>1, OwnPinsKept DEF StrayInv
<1>6. NoNewEdge'
  <2>1. ASSUME NEW u \in Tasks, todo'[u] = AtType PROVE ena'[pin'[u]] # NoCore
    BY <1>3, <1>5, <2>1, RestSteps DEF StrayInv, NoNewEdge
  <2>2. ASSUME NEW u \in Tasks, todo'[u] = AtUnmask PROVE ena'[pin'[u]] # NoCore \/ type'[pin'[u]] = 0
    BY <1>3, <1>5, <2>2, RestSteps DEF StrayInv, NoNewEdge
  <2>3. \A q \in Pins : use'[q] = "detached" => type'[q] = 0
    BY <1>1, <1>2, <1>3, <1>4 DEF StrayInv, NoNewEdge
  <2> QED BY <2>1, <2>2, <2>3 DEF NoNewEdge
<1>7. LowFirst' /\ Counted'
  BY <1>2, <1>3, <1>4, CountedKept DEF StrayInv
<1> QED BY <1>5, <1>6, <1>7 DEF StrayInv

\* Edges and the routine change neither the calls nor what they set.
LEMMA RoutineKeeps ==
  ASSUME OwnPins, NoNewEdge, UNCHANGED <<todo, pin, ena, type, use>>
  PROVE  OwnPins' /\ NoNewEdge'
BY DEF OwnPins, NoNewEdge

\* An edge is latched for no detached pin.
LEMMA EdgeStrayInv ==
  ASSUME EdgeInv, StrayInv, NEW p \in Pins, NEW e \in {1, 2}, Edge(p, e)
  PROVE  StrayInv'
<1>1. UNCHANGED <<todo, pin, ena, type, use, isr, seen, stray>> /\ status' = status \cup {p}
  BY DEF Edge, task, regs
<1>2. use[p] # "detached"
  BY DEF Edge, StrayInv, NoNewEdge
<1>3. ASSUME NEW q \in Pins, use[q] = "detached" PROVE ToCome(q)' = ToCome(q)
  <2>1. q \in status' <=> q \in status
    BY <1>1, <1>2, <1>3
  <2>2. Taken(q)' <=> Taken(q)
    BY <1>1 DEF Taken, Low, High
  <2> QED BY <1>1, <2>1, <2>2 DEF ToCome
<1>4. Counted'
  BY <1>1, <1>3 DEF StrayInv, Counted
<1>5. LowFirst'
  BY <1>1 DEF StrayInv, LowFirst, Low
<1> QED BY <1>1, <1>4, <1>5, RoutineKeeps DEF StrayInv

\* The routine reads what is latched and clears what it has read: nothing more is to come.
LEMMA ReadStrayInv ==
  ASSUME EdgeInv, StrayInv, Enter \/ ReadHigh \/ ClearStatus
  PROVE  StrayInv'
<1>1. UNCHANGED <<todo, pin, ena, type, use, stray>>
  BY DEF Enter, ReadHigh, ClearStatus, task, regs
<1>2. \A p \in Pins : (p \in Low) # (p \in High)
  BY DEF High
<1>3. LowFirst'
  BY DEF Enter, ReadHigh, ClearStatus, LowFirst, Low
<1>4. ASSUME NEW p \in Pins PROVE ToCome(p)' <= ToCome(p)
  <2>1. CASE Enter
    <3>1. p \notin seen /\ status' = status /\ (p \in seen' <=> p \in status /\ p \in Low) /\ isr' = "readHigh"
      BY <2>1 DEF Enter, EdgeInv, NothingSeen
    <3>2. Taken(p)' <=> p \in status /\ p \in Low
      BY <3>1 DEF Taken, Low, High
    <3>3. ~Taken(p)
      BY <3>1 DEF Taken
    <3> QED BY <3>1, <3>2, <3>3 DEF ToCome
  <2>2. CASE ReadHigh
    <3>1. /\ status' = status /\ isr = "readHigh" /\ isr' = "clearLow"
          /\ p \in seen' <=> p \in seen \/ (p \in status /\ p \in High)
          /\ p \in seen => p \in Low
      BY <2>2 DEF ReadHigh, StrayInv, LowFirst
    <3>2. Taken(p) <=> p \in seen
      BY <3>1 DEF Taken
    <3>3. Taken(p)' <=> p \in seen'
      BY <3>1, <1>2 DEF Taken, Low, High
    <3> QED BY <1>2, <3>1, <3>2, <3>3 DEF ToCome
  <2>3. CASE ClearStatus /\ isr = "clearLow"
    <3>1. /\ isr' = "clearHigh" /\ seen' = seen
          /\ p \in status' <=> p \in status /\ ~(p \in seen /\ p \in Low)
      BY <2>3 DEF ClearStatus, Clear
    <3>2. Taken(p) <=> p \in seen
      BY <2>3, <1>2 DEF Taken
    <3>3. Taken(p)' <=> p \in seen /\ p \in High
      BY <3>1 DEF Taken, Low, High
    <3> QED BY <1>2, <3>1, <3>2, <3>3 DEF ToCome
  <2>4. CASE ClearStatus /\ isr = "clearHigh"
    <3>1. /\ isr' = "walk" /\ seen' = seen
          /\ p \in status' <=> p \in status /\ ~(p \in seen /\ p \in High)
      BY <2>4 DEF ClearStatus, Clear
    <3>2. Taken(p) <=> p \in seen /\ p \in High
      BY <2>4 DEF Taken
    <3>3. ~Taken(p)'
      BY <3>1 DEF Taken
    <3> QED BY <3>1, <3>2, <3>3 DEF ToCome
  <2> QED BY <2>1, <2>2, <2>3, <2>4 DEF ClearStatus
<1>5. Counted'
  <2>1. \A p \in Pins : ToCome(p) \in Nat /\ ToCome(p)' \in Nat /\ stray[p] \in Nat
    BY DEF ToCome, EdgeInv, TypeOK
  <2>2. ASSUME NEW p \in Pins, use'[p] = "detached" PROVE stray'[p] + ToCome(p)' <= 2
    <3>1. stray[p] + ToCome(p) <= 2
      BY <1>1, <2>2 DEF StrayInv, Counted
    <3> QED BY <1>1, <1>4, <2>1, <3>1
  <2> QED BY <1>1, <2>2 DEF StrayInv, Counted
<1> QED BY <1>1, <1>3, <1>5, RoutineKeeps DEF StrayInv

\* A run of the handler is one less to come.
LEMMA WalkStrayInv ==
  ASSUME EdgeInv, StrayInv, Walk \/ Leave
  PROVE  StrayInv'
<1>1. UNCHANGED <<todo, pin, ena, type, use, status>> /\ isr = "walk" /\ isr' \in {"walk", "idle"}
  BY DEF Walk, Leave, task, regs
<1>2. \A p \in Pins : ~Taken(p) /\ ~Taken(p)'
  BY <1>1 DEF Taken
<1>3. LowFirst'
  BY <1>1 DEF LowFirst
<1>4. ASSUME NEW p \in Pins
      PROVE  /\ use[p] # "detached" => stray'[p] = stray[p]
             /\ stray'[p] + ToCome(p)' <= stray[p] + ToCome(p)
  <2>1. CASE Leave
    <3>1. seen' = seen /\ stray' = stray
      BY <2>1 DEF Leave
    <3> QED BY <1>1, <1>2, <3>1 DEF ToCome, EdgeInv, TypeOK
  <2>2. CASE Walk
    <3>1. PICK q \in seen :
            /\ seen' = seen \ {q}
            /\ stray' = [stray EXCEPT ![q] = IF handler[q] /\ use[q] = "detached" /\ @ < 3 THEN @ + 1 ELSE @]
      BY <2>2 DEF Walk
    <3>2. stray \in [Pins -> 0..3] /\ q \in Pins
      BY <3>1 DEF EdgeInv, TypeOK
    <3>3. CASE p = q
      <4>1. p \in seen /\ p \notin seen'
        BY <3>1, <3>3
      <4>2. stray'[p] \in {stray[p], stray[p] + 1} /\ (use[p] # "detached" => stray'[p] = stray[p]) /\ stray[p] \in 0..3
        BY <3>1, <3>2, <3>3
      <4> QED BY <1>1, <1>2, <4>1, <4>2 DEF ToCome
    <3>4. CASE p # q
      <4>1. (p \in seen' <=> p \in seen) /\ stray'[p] = stray[p] /\ stray[p] \in 0..3
        BY <3>1, <3>2, <3>4
      <4> QED BY <1>1, <1>2, <4>1 DEF ToCome
    <3> QED BY <3>3, <3>4
  <2> QED BY <2>1, <2>2
<1>5. Counted'
  <2>1. \A p \in Pins : ToCome(p) \in Nat /\ ToCome(p)' \in Nat /\ stray[p] \in Nat
    BY DEF ToCome, EdgeInv, TypeOK
  <2>2. \A p \in Pins : stray'[p] \in Nat
    BY DEF Walk, Leave, EdgeInv, TypeOK
  <2>3. ASSUME NEW p \in Pins, use'[p] = "detached" PROVE stray'[p] + ToCome(p)' <= 2
    <3>1. stray[p] + ToCome(p) <= 2
      BY <1>1, <2>3 DEF StrayInv, Counted
    <3> QED BY <1>4, <2>1, <2>2, <3>1
  <2>4. ASSUME NEW p \in Pins, use'[p] # "detached" PROVE stray'[p] = 0
    BY <1>1, <1>4, <2>4 DEF StrayInv, Counted
  <2> QED BY <2>3, <2>4 DEF Counted
<1> QED BY <1>1, <1>3, <1>5, RoutineKeeps DEF StrayInv

LEMMA NextStrayInv == EdgeInv /\ StrayInv /\ [Next]_vars => StrayInv'
<1> SUFFICES ASSUME EdgeInv, StrayInv, [Next]_vars PROVE StrayInv'
  OBVIOUS
<1>1. ASSUME NEW t \in Tasks, NEW p \in Pins, detachIrqHandler(t, p) PROVE StrayInv'
  BY <1>1, CallStrayInv DEF detachIrqHandler
<1>2. ASSUME NEW t \in Tasks, NEW p \in Pins, NEW e \in Edges, attachIrqHandler(t, p, e) PROVE StrayInv'
  BY <1>2, CallStrayInv DEF attachIrqHandler
<1>3. ASSUME NEW t \in Tasks, Step(t) PROVE StrayInv'
  BY <1>3, InnerStrayInv, SetRegsStrayInv, UnmaskStrayInv DEF Step
<1>4. ASSUME NEW p \in Pins, NEW e \in {1, 2}, Edge(p, e) PROVE StrayInv'
  BY <1>4, EdgeStrayInv
<1>5. CASE Isr
  BY <1>5, ReadStrayInv, WalkStrayInv DEF Isr
<1>6. CASE UNCHANGED vars
  <2>1. UNCHANGED <<todo, pin, ena, type, use, status, isr, seen, stray>>
    BY <1>6 DEF vars, task, regs
  <2>2. OwnPins' /\ NoNewEdge'
    BY <2>1, RoutineKeeps DEF StrayInv
  <2>3. LowFirst' /\ Counted'
    BY <2>1, CountedKept DEF StrayInv
  <2> QED BY <2>2, <2>3 DEF StrayInv
<1> QED BY <1>1, <1>2, <1>3, <1>4, <1>5, <1>6 DEF Next

-----------------------------------------------------------------------------
(* The theorems.                                                           *)

\* The handler is in the table before int_ena lets an edge through, and what the routine
\* clears it has read (esp32gpiochip.cpp 44-75, 142-179).
THEOREM EdgeInvariant == Spec => []EdgeInv
<1>1. Init => EdgeInv
  BY InitEdgeInv
<1>2. EdgeInv /\ [Next]_vars => EdgeInv'
  BY NextEdgeInv
<1> QED BY <1>1, <1>2, PTL DEF Spec

\* An edge on an attached pin stays latched or read until its handler has run, for any
\* tasks on any core and any overlap of their calls (44-75).
THEOREM GpioNoLostEdge == Spec => []NoLostEdge
<1>1. EdgeInv => NoLostEdge
  BY DEF EdgeInv
<1> QED BY <1>1, EdgeInvariant, PTL

\* The handler of a detached pin runs at most twice more, whatever overlaps the detach: once
\* for what the routine had read, once for an edge latched before int_type was cleared (170-179).
THEOREM GpioFewStrays == Spec => []FewStrays
<1>1. Init => StrayInv
  BY InitStrayInv
<1>2. EdgeInv /\ StrayInv /\ [Next]_vars => StrayInv'
  BY NextStrayInv
<1>3. EdgeInv /\ StrayInv => FewStrays
  <2>1. SUFFICES ASSUME EdgeInv, StrayInv, NEW p \in Pins PROVE stray[p] <= 2
    BY DEF FewStrays
  <2>2. stray[p] \in 0..3
    BY <2>1 DEF EdgeInv, TypeOK
  <2>3. ToCome(p) \in Nat
    BY DEF ToCome
  <2>4. stray[p] = 0 \/ stray[p] + ToCome(p) <= 2
    BY <2>1 DEF StrayInv, Counted
  <2> QED BY <2>2, <2>3, <2>4
<1> QED BY <1>1, <1>2, <1>3, EdgeInvariant, PTL DEF Spec
=============================================================================
