-------------------------- MODULE SessionStackProofs --------------------------
(***************************************************************************)
(* Proofs about SessionStack, for any number of threads and profiles: in a *)
(* worker that serves one request at a time, every block gives back the    *)
(* session it was entered with and leaves nothing behind on the lists of   *)
(* the shared decorators, and every step of a handler has just the groups  *)
(* of the blocks it is in.                                                 *)
(***************************************************************************)
EXTENDS SessionStack, SequenceTheorems, TLAPS

-----------------------------------------------------------------------------
(* The inductive invariant.                                                *)

(* Only one request is served, and only requests have blocks open. *)
OneBusy ==
  /\ \A t, u \in Threads : busy[t] /\ busy[u] => t = u
  /\ \A t \in Threads : ~busy[t] => open[t] = <<>>

(* A block of a shared decorator has its session on the decorator's list.  *)
Matched ==
  \A t \in Threads : \A i \in 1..Len(open[t]) :
    open[t][i].deco \in Shared =>
      /\ open[t][i].depth \in 1..Len(original[open[t][i].deco])
      /\ original[open[t][i].deco][open[t][i].depth] = open[t][i].before

(* The inner block of the same decorator is the higher one on its list. *)
Ordered ==
  \A t \in Threads : \A i, j \in 1..Len(open[t]) :
    i < j /\ open[t][i].deco = open[t][j].deco /\ open[t][i].deco \in Shared
      => open[t][i].depth < open[t][j].depth

(* Nothing is on a list without a block that will take it back. *)
Covered ==
  \A d \in Shared : \A k \in 1..Len(original[d]) :
    \E t \in Threads : \E i \in 1..Len(open[t]) :
      open[t][i].deco = d /\ open[t][i].depth = k

IInv == TypeOK /\ OneBusy /\ Matched /\ Ordered /\ Covered

-----------------------------------------------------------------------------
(* Types.                                                                  *)

LEMMA OpsType ==
  /\ \A d \in Decorators : Enter(d) \in Op
  /\ \A g \in Groups : Require(g) \in Op
  /\ Leave \in Op /\ Install \in Op
  BY DEF Enter, Require, Leave, Install, Op

LEMMA SessionFromProfileType ==
  \A a \in BOOLEAN : SessionFromProfile(a) \in Seq(Op)
<1> SUFFICES ASSUME NEW a \in BOOLEAN PROVE SessionFromProfile(a) \in Seq(Op)
  OBVIOUS
<1> DEFINE head == <<Enter("do_as_root"), Leave, Enter("do_with_groups")>>
           middle == IF a THEN <<Enter("do_as_root"), Leave>> ELSE <<>>
<1>1. head \in Seq(Op) /\ middle \in Seq(Op) /\ <<Leave>> \in Seq(Op)
  BY OpsType DEF Decorators, Shared
<1>2. SessionFromProfile(a) = head \o middle \o <<Leave>>
  BY DEF SessionFromProfile
<1> HIDE DEF head, middle
<1> QED
  BY <1>1, <1>2, ConcatProperties

LEMMA HandlersType == Handlers \subseteq Seq(Op)
<1>1. Enter("do_as_root") \in Op /\ Enter("sudo_push") \in Op
  BY OpsType DEF Decorators, Shared
<1>2. Require(admin) \in Op /\ Require(user) \in Op /\ Require(everybody) \in Op
  BY OpsType DEF Groups
<1>3. \A a \in BOOLEAN : SudoPost(a) \in Seq(Op)
  BY <1>1, <1>2, OpsType, SessionFromProfileType, ConcatProperties DEF SudoPost
<1>4. SessionForAppPost \in Seq(Op)
  <2>1. <<Require(user)>> \in Seq(Op) /\ <<Install>> \in Seq(Op)
    BY <1>2, OpsType
  <2>2. <<Require(user)>> \o SessionFromProfile(TRUE) \in Seq(Op)
    BY <2>1, SessionFromProfileType, ConcatProperties
  <2> QED
    BY <2>1, <2>2, ConcatProperties DEF SessionForAppPost
<1>5. /\ SessionPut \in Seq(Op) /\ SignUpGet \in Seq(Op)
      /\ PushEventPost \in Seq(Op)
  BY <1>1, <1>2, OpsType DEF SessionPut, SignUpGet, PushEventPost
<1>6. ASSUME NEW s \in BOOLEAN PROVE OAuthCallbackGet(s) \in Seq(Op)
  <2> DEFINE start == <<Require(everybody), Enter("do_as_root"), Leave>>
             inner == <<Enter("do_as_root")>> \o SessionFromProfile(TRUE)
                      \o <<Leave, Install>>
             rest == IF s THEN inner ELSE <<>>
  <2>1. /\ start \in Seq(Op) /\ <<Install>> \in Seq(Op)
        /\ <<Enter("do_as_root")>> \in Seq(Op) /\ <<Leave, Install>> \in Seq(Op)
    BY <1>1, <1>2, OpsType
  <2>2. SessionFromProfile(TRUE) \in Seq(Op)
        /\ SessionFromProfile(FALSE) \in Seq(Op)
    BY SessionFromProfileType
  <2>3. inner \in Seq(Op)
    BY <2>1, <2>2, ConcatProperties
  <2>4. OAuthCallbackGet(s) =
          start \o SessionFromProfile(FALSE) \o <<Install>> \o rest
    BY DEF OAuthCallbackGet
  <2> HIDE DEF start, inner
  <2>5. rest \in Seq(Op)
    BY <2>3
  <2> HIDE DEF rest
  <2>6. start \o SessionFromProfile(FALSE) \in Seq(Op)
    BY <2>1, <2>2, ConcatProperties
  <2>7. start \o SessionFromProfile(FALSE) \o <<Install>> \in Seq(Op)
    BY <2>1, <2>6, ConcatProperties
  <2> QED
    BY <2>4, <2>5, <2>7, ConcatProperties
<1> QED
  BY <1>3, <1>4, <1>5, <1>6 DEF Handlers

(* What every action keeps of the step it takes. *)
LEMMA TailType ==
  ASSUME TypeOK, NEW t \in Threads, todo[t] # <<>>
  PROVE  Head(todo[t]) \in Op /\ Tail(todo[t]) \in Seq(Op)
  BY DEF TypeOK

LEMMA EnterArgument ==
  ASSUME TypeOK, NEW t \in Threads, Step(t, "enter")
  PROVE  Head(todo[t]).arg \in Decorators
<1>1. Head(todo[t]) \in Op /\ Head(todo[t]).do = "enter"
  BY TailType DEF Step
<1> QED
  BY <1>1 DEF Op, Leave, Install

LEMMA UnwindType ==
  ASSUME TypeOK, NEW t \in Threads
  PROVE  Unwind(t) \in Seq(Op)
<1>1. Len(open[t]) \in Nat
  BY DEF TypeOK
<1> QED
  BY <1>1, OpsType DEF Unwind

(* A list without its last element. *)
LEMMA AllButLast ==
  ASSUME NEW S, NEW s \in Seq(S), s # <<>>
  PROVE  /\ Len(s) \in Nat \ {0}
         /\ s[Len(s)] \in S
         /\ SubSeq(s, 1, Len(s) - 1) \in Seq(S)
         /\ Len(SubSeq(s, 1, Len(s) - 1)) = Len(s) - 1
         /\ \A i \in 1..(Len(s) - 1) : SubSeq(s, 1, Len(s) - 1)[i] = s[i]
<1> DEFINE n == Len(s) - 1
<1>1. n \in Nat /\ Len(s) = n + 1 /\ s[Len(s)] \in S
  OBVIOUS
<1>2. \A i \in 1..n : s[i] \in S
  OBVIOUS
<1> HIDE DEF n
<1>3. SubSeq(s, 1, n) = [i \in 1..n |-> s[i]]
  BY <1>1
<1>4. SubSeq(s, 1, n) \in Seq(S) /\ Len(SubSeq(s, 1, n)) = n
  BY <1>1, <1>2, <1>3
<1>5. \A i \in 1..n : SubSeq(s, 1, n)[i] = s[i]
  BY <1>3
<1> QED
  BY <1>1, <1>4, <1>5 DEF n

(* The innermost block is a block, and what remains without it is a list.  *)
LEMMA InnermostType ==
  ASSUME TypeOK, NEW t \in Threads, open[t] # <<>>
  PROVE  /\ Len(open[t]) \in Nat \ {0}
         /\ Innermost(t) \in Block
         /\ SubSeq(open[t], 1, Len(open[t]) - 1) \in Seq(Block)
         /\ Len(SubSeq(open[t], 1, Len(open[t]) - 1)) = Len(open[t]) - 1
         /\ \A i \in 1..(Len(open[t]) - 1) :
              SubSeq(open[t], 1, Len(open[t]) - 1)[i] = open[t][i]
<1>1. open[t] \in Seq(Block)
  BY DEF TypeOK
<1> QED
  BY <1>1, AllButLast DEF Innermost

(* With one request, the innermost block of a decorator is the top of the  *)
(* decorator's list.                                                       *)
LEMMA InnermostIsTop ==
  ASSUME IInv, NEW t \in Threads, busy[t], open[t] # <<>>,
         Innermost(t).deco \in Shared
  PROVE  /\ original[Innermost(t).deco] # <<>>
         /\ Innermost(t).depth = Len(original[Innermost(t).deco])
         /\ original[Innermost(t).deco][Len(original[Innermost(t).deco])]
              = Innermost(t).before
<1> DEFINE n == Len(open[t])
           d == Innermost(t).deco
           top == Len(original[d])
<1>1. n \in Nat \ {0} /\ open[t][n] = Innermost(t) /\ n \in 1..n
  BY InnermostType DEF IInv, Innermost
<1>2. /\ Innermost(t).depth \in 1..top
      /\ original[d][Innermost(t).depth] = Innermost(t).before
  <2>1. \A i \in 1..n : open[t][i].deco \in Shared =>
          /\ open[t][i].depth \in 1..Len(original[open[t][i].deco])
          /\ original[open[t][i].deco][open[t][i].depth] = open[t][i].before
    BY DEF IInv, Matched
  <2>2. open[t][n].deco \in Shared
    BY <1>1
  <2>3. /\ open[t][n].depth \in 1..Len(original[open[t][n].deco])
        /\ original[open[t][n].deco][open[t][n].depth] = open[t][n].before
    BY <1>1, <2>1, <2>2
  <2> QED
    BY <1>1, <2>3
<1>3. original[d] \in Seq(Session) /\ top \in Nat
  BY DEF IInv, TypeOK
<1>4. top \in 1..top
  BY <1>2, <1>3
<1>9. PICK u \in Threads : \E i \in 1..Len(open[u]) :
        open[u][i].deco = d /\ open[u][i].depth = top
  <2>1. \A k \in 1..Len(original[d]) :
          \E u \in Threads : \E i \in 1..Len(open[u]) :
            open[u][i].deco = d /\ open[u][i].depth = k
    BY DEF IInv, Covered
  <2> QED
    BY <1>4, <2>1
<1>5. PICK i \in 1..Len(open[u]) : open[u][i].deco = d /\ open[u][i].depth = top
  BY <1>9
<1>6. u = t
  <2>1. open[u] # <<>>
    BY <1>5 DEF IInv, TypeOK
  <2> QED
    BY <2>1 DEF IInv, OneBusy
<1>7. i = n
  <2>1. SUFFICES ASSUME i # n PROVE FALSE
    OBVIOUS
  <2>2. i \in 1..n /\ i < n
    BY <1>1, <1>5, <1>6, <2>1
  <2>3. open[t][i].depth < open[t][n].depth
    BY <1>1, <1>5, <1>6, <2>2 DEF IInv, Ordered
  <2> QED
    BY <1>1, <1>2, <1>3, <1>5, <1>6, <2>3
<1>8. Innermost(t).depth = top
  BY <1>1, <1>5, <1>6, <1>7
<1> QED
  BY <1>2, <1>3, <1>4, <1>8

-----------------------------------------------------------------------------
LEMMA InitInv == Init => IInv
<1> SUFFICES ASSUME Init PROVE IInv
  OBVIOUS
<1>1. session \in [Threads -> Session]
  BY DEF Init, Arriving
<1>2. /\ busy = [t \in Threads |-> FALSE] /\ own = session
      /\ todo = [t \in Threads |-> <<>>] /\ open = [t \in Threads |-> <<>>]
      /\ original = [d \in Shared |-> <<>>]
  BY DEF Init
<1>3. TypeOK
  BY <1>1, <1>2 DEF TypeOK
<1> QED
  BY <1>2, <1>3 DEF IInv, OneBusy, Matched, Ordered, Covered

(* The steps that open and close nothing. *)
LEMMA SameBlocks ==
  ASSUME IInv, TypeOK', OneBusy', UNCHANGED <<open, original>>
  PROVE  IInv'
  BY DEF IInv, Matched, Ordered, Covered

LEMMA AcceptInv ==
  ASSUME OneRequestAtATime, IInv, NEW t \in Threads, Accept(t)
  PROVE  IInv'
<1>1. PICK s \in Arriving, h \in Handlers :
        /\ session' = [session EXCEPT ![t] = s]
        /\ own' = [own EXCEPT ![t] = s]
        /\ todo' = [todo EXCEPT ![t] = h]
  BY DEF Accept
<1>2. /\ busy' = [busy EXCEPT ![t] = TRUE]
      /\ UNCHANGED <<open, original>>
      /\ \A u \in Threads : ~busy[u]
  BY DEF Accept
<1>3. s \in Session /\ h \in Seq(Op)
  BY HandlersType DEF Arriving
<1>4. TypeOK'
  BY <1>1, <1>2, <1>3 DEF IInv, TypeOK
<1>5. OneBusy'
  BY <1>2 DEF IInv, TypeOK, OneBusy
<1> QED
  BY <1>2, <1>4, <1>5, SameBlocks

(* The steps that change nothing but what is left to do. *)
LEMMA TodoInv ==
  ASSUME IInv, NEW t \in Threads, RequireGroup(t) \/ RefuseBlock(t) \/ Raise(t)
  PROVE  IInv'
<1>1. UNCHANGED <<busy, session, own, open, original>>
  BY DEF RequireGroup, RefuseBlock, Raise
<1>2. \E s \in Seq(Op) : todo' = [todo EXCEPT ![t] = s]
  <2>1. Unwind(t) \in Seq(Op)
    BY UnwindType DEF IInv
  <2>2. CASE RequireGroup(t)
    BY <2>1, <2>2, TailType DEF IInv, TypeOK, RequireGroup, Step
  <2>3. CASE RefuseBlock(t) \/ Raise(t)
    BY <2>1, <2>3 DEF RefuseBlock, Raise
  <2> QED
    BY <2>2, <2>3
<1>3. TypeOK'
  BY <1>1, <1>2 DEF IInv, TypeOK
<1> QED
  BY <1>1, <1>3, SameBlocks DEF IInv, OneBusy

LEMMA InstallInv ==
  ASSUME IInv, NEW t \in Threads, InstallSession(t)
  PROVE  IInv'
<1>1. PICK p \in Profiles :
        /\ session' = [session EXCEPT ![t] = NewSession(p)]
        /\ own' = [own EXCEPT ![t] = NewSession(p)]
  BY DEF InstallSession
<1>2. /\ todo' = [todo EXCEPT ![t] = Tail(@)]
      /\ UNCHANGED <<busy, open, original>>
      /\ todo[t] # <<>>
  BY DEF InstallSession, Step
<1>3. NewSession(p) \in Session
  BY DEF NewSession, Session, Groups
<1>4. TypeOK'
  BY <1>1, <1>2, <1>3, TailType DEF IInv, TypeOK
<1> QED
  BY <1>2, <1>4, SameBlocks DEF IInv, OneBusy

LEMMA RespondInv ==
  ASSUME IInv, NEW t \in Threads, Respond(t)
  PROVE  IInv'
<1>1. /\ busy' = [busy EXCEPT ![t] = FALSE]
      /\ open[t] = <<>>
      /\ UNCHANGED <<session, own, todo, open, original>>
  BY DEF Respond
<1>2. TypeOK'
  BY <1>1 DEF IInv, TypeOK
<1>3. OneBusy'
  BY <1>1 DEF IInv, TypeOK, OneBusy
<1> QED
  BY <1>1, <1>2, <1>3, SameBlocks

LEMMA EnterInv ==
  ASSUME IInv, NEW t \in Threads, EnterBlock(t)
  PROVE  IInv'
<1> DEFINE d == Head(todo[t]).arg
           depth == IF d \in Shared THEN Len(original[d]) + 1 ELSE 1
           b == [deco |-> d, before |-> session[t], depth |-> depth]
           n == Len(open[t])
<1>1. d \in Decorators
  BY EnterArgument DEF IInv, EnterBlock
<1>2. /\ busy[t] /\ todo[t] # <<>>
      /\ original' = IF d \in Shared
                       THEN [original EXCEPT ![d] = Append(@, session[t])]
                       ELSE original
      /\ open' = [open EXCEPT ![t] = Append(@, b)]
      /\ session' = [session EXCEPT ![t].groups = @ \cup Added(d)]
      /\ todo' = [todo EXCEPT ![t] = Tail(@)]
      /\ UNCHANGED <<busy, own>>
  BY DEF EnterBlock, Step
<1>3. /\ session \in [Threads -> Session]
      /\ open \in [Threads -> Seq(Block)]
      /\ original \in [Shared -> Seq(Session)]
      /\ todo \in [Threads -> Seq(Op)]
  BY DEF IInv, TypeOK
<1>4. d \in Shared => Len(original[d]) \in Nat
  BY <1>3
<1>5. b \in Block
  BY <1>1, <1>3, <1>4 DEF Block
<1>6. [session[t] EXCEPT !.groups = @ \cup Added(d)] \in Session
  BY <1>3 DEF Session, Added, Groups
<1> HIDE DEF d
<1>7. TypeOK'
  <2>1. open' \in [Threads -> Seq(Block)]
    BY <1>2, <1>3, <1>5
  <2>2. original' \in [Shared -> Seq(Session)]
    BY <1>2, <1>3
  <2>3. session' \in [Threads -> Session]
    BY <1>2, <1>3, <1>6
  <2>4. todo' \in [Threads -> Seq(Op)]
    BY <1>2, <1>3
  <2> QED
    BY <1>2, <2>1, <2>2, <2>3, <2>4 DEF IInv, TypeOK
<1>8. /\ n \in Nat
      /\ Len(open'[t]) = n + 1
      /\ open'[t][n + 1] = b
      /\ \A i \in 1..n : open'[t][i] = open[t][i]
      /\ \A u \in Threads : u # t => open'[u] = open[u]
  BY <1>2, <1>3
<1>9. \A e \in Shared :
        /\ Len(original[e]) \in Nat
        /\ e # d => original'[e] = original[e]
        /\ e = d => /\ Len(original'[e]) = Len(original[e]) + 1
                    /\ original'[e][Len(original[e]) + 1] = session[t]
                    /\ \A k \in 1..Len(original[e]) :
                         original'[e][k] = original[e][k]
  BY <1>2, <1>3
<1>10. OneBusy'
  <2>1. \A u \in Threads : ~busy[u] => open'[u] = open[u]
    BY <1>2, <1>8
  <2> QED
    BY <1>2, <2>1 DEF IInv, OneBusy
<1>11. b.deco = d /\ b.before = session[t] /\ b.depth = depth
  OBVIOUS
<1> HIDE DEF b
<1>12. Matched'
  <2>1. SUFFICES ASSUME NEW u \in Threads, NEW i \in 1..Len(open'[u]),
                        open'[u][i].deco \in Shared
                 PROVE  /\ open'[u][i].depth
                             \in 1..Len(original'[open'[u][i].deco])
                        /\ original'[open'[u][i].deco][open'[u][i].depth]
                             = open'[u][i].before
    BY DEF Matched
  <2>2. CASE u = t /\ i = n + 1
    <3>1. open'[u][i] = b /\ d \in Shared
      BY <1>8, <1>11, <2>1, <2>2
    <3>2. depth = Len(original[d]) + 1 /\ Len(original[d]) \in Nat
      BY <1>4, <3>1
    <3>3. /\ Len(original'[d]) = depth
          /\ original'[d][depth] = session[t]
      BY <1>9, <3>1, <3>2
    <3>4. depth \in 1..Len(original'[d])
      BY <3>2, <3>3
    <3> QED
      BY <1>11, <3>1, <3>3, <3>4
  <2>3. CASE ~ (u = t /\ i = n + 1)
    <3>1. i \in 1..Len(open[u]) /\ open'[u][i] = open[u][i]
      BY <1>8, <2>1, <2>3
    <3>2. /\ open[u][i].depth \in 1..Len(original[open[u][i].deco])
          /\ original[open[u][i].deco][open[u][i].depth] = open[u][i].before
      BY <2>1, <3>1 DEF IInv, Matched
    <3> QED
      BY <1>9, <2>1, <3>1, <3>2
  <2> QED
    BY <2>2, <2>3
<1>13. Ordered'
  <2>1. SUFFICES ASSUME NEW u \in Threads,
                        NEW i \in 1..Len(open'[u]), NEW j \in 1..Len(open'[u]),
                        i < j, open'[u][i].deco = open'[u][j].deco,
                        open'[u][i].deco \in Shared
                 PROVE  open'[u][i].depth < open'[u][j].depth
    BY DEF Ordered
  <2>2. CASE u = t /\ j = n + 1
    <3>1. i \in 1..n /\ open'[t][i] = open[t][i]
      BY <1>8, <2>1, <2>2
    <3>2. open[t][i].depth \in 1..Len(original[d])
      <4>1. open[t][i].deco = d /\ d \in Shared
        BY <1>8, <1>11, <2>1, <2>2, <3>1
      <4>2. \A k \in 1..n : open[t][k].deco \in Shared =>
              open[t][k].depth \in 1..Len(original[open[t][k].deco])
        BY DEF IInv, Matched
      <4>3. open[t][i].depth \in 1..Len(original[open[t][i].deco])
        BY <3>1, <4>1, <4>2
      <4> QED
        BY <4>1, <4>3
    <3>3. open'[t][j].depth = Len(original[d]) + 1
      BY <1>8, <1>11, <2>1, <2>2
    <3> QED
      BY <1>9, <2>1, <2>2, <3>1, <3>2, <3>3
  <2>3. CASE ~ (u = t /\ j = n + 1)
    <3>1. /\ i \in 1..Len(open[u]) /\ open'[u][i] = open[u][i]
          /\ j \in 1..Len(open[u]) /\ open'[u][j] = open[u][j]
      BY <1>8, <2>1, <2>3
    <3> QED
      BY <2>1, <3>1 DEF IInv, Ordered
  <2> QED
    BY <2>2, <2>3
<1>14. Covered'
  <2>1. SUFFICES ASSUME NEW e \in Shared, NEW k \in 1..Len(original'[e])
                 PROVE  \E u \in Threads : \E i \in 1..Len(open'[u]) :
                          open'[u][i].deco = e /\ open'[u][i].depth = k
    BY DEF Covered
  <2>2. CASE e = d /\ k = Len(original[e]) + 1
    <3>1. n + 1 \in 1..Len(open'[t])
      BY <1>8
    <3> QED
      BY <1>8, <1>11, <2>1, <2>2, <3>1
  <2>3. CASE ~ (e = d /\ k = Len(original[e]) + 1)
    <3>1. k \in 1..Len(original[e])
      BY <1>9, <2>1, <2>3
    <3>4. PICK u \in Threads : \E i \in 1..Len(open[u]) :
            open[u][i].deco = e /\ open[u][i].depth = k
      BY <2>1, <3>1 DEF IInv, Covered
    <3>2. PICK i \in 1..Len(open[u]) :
            open[u][i].deco = e /\ open[u][i].depth = k
      BY <3>4
    <3>3. i \in 1..Len(open'[u]) /\ open'[u][i] = open[u][i]
      BY <1>8, <3>2
    <3> QED
      BY <3>2, <3>3
  <2> QED
    BY <2>2, <2>3
<1> QED
  BY <1>7, <1>10, <1>12, <1>13, <1>14 DEF IInv

LEMMA LeaveInv ==
  ASSUME IInv, NEW t \in Threads, LeaveBlock(t)
  PROVE  IInv' /\ session'[t] = Innermost(t).before
<1> DEFINE b == Innermost(t)
           d == b.deco
           n == Len(open[t])
<1>1. /\ busy[t] /\ todo[t] # <<>> /\ open[t] # <<>>
      /\ open' = [open EXCEPT ![t] = SubSeq(@, 1, Len(@) - 1)]
      /\ todo' = [todo EXCEPT ![t] = Tail(@)]
      /\ UNCHANGED <<busy, own>>
  BY DEF LeaveBlock, Step
<1>2. /\ session \in [Threads -> Session]
      /\ open \in [Threads -> Seq(Block)]
      /\ original \in [Shared -> Seq(Session)]
      /\ todo \in [Threads -> Seq(Op)]
  BY DEF IInv, TypeOK
<1>3. b \in Block /\ b.before \in Session
  BY <1>1, InnermostType DEF IInv, Block
<1>4. /\ n \in Nat \ {0}
      /\ open'[t] \in Seq(Block)
      /\ Len(open'[t]) = n - 1
      /\ \A i \in 1..(n - 1) : open'[t][i] = open[t][i]
      /\ \A u \in Threads : u # t => open'[u] = open[u]
      /\ open[t][n] = b
  BY <1>1, <1>2, InnermostType DEF IInv, Innermost
<1>5. d \in Shared =>
        /\ original[d] # <<>>
        /\ b.depth = Len(original[d])
        /\ original[d][Len(original[d])] = b.before
  BY <1>1, InnermostIsTop
<1> HIDE DEF b
<1>6. session' = [session EXCEPT ![t] = b.before]
  <2>1. CASE d \in Shared
    BY <1>5, <2>1 DEF LeaveBlock, b
  <2>2. CASE d \notin Shared
    BY <2>2 DEF LeaveBlock, b
  <2> QED
    BY <2>1, <2>2
<1>7. /\ original' \in [Shared -> Seq(Session)]
      /\ \A e \in Shared :
           /\ Len(original[e]) \in Nat
           /\ e # d => original'[e] = original[e]
           /\ e = d => /\ Len(original[e]) \in Nat \ {0}
                       /\ Len(original'[e]) = Len(original[e]) - 1
                       /\ \A k \in 1..(Len(original[e]) - 1) :
                            original'[e][k] = original[e][k]
  <2>1. CASE d \in Shared
    <3>1. original' = [original EXCEPT ![d] = SubSeq(@, 1, Len(@) - 1)]
      BY <2>1 DEF LeaveBlock, b
    <3>2. original[d] \in Seq(Session) /\ original[d] # <<>>
      BY <1>2, <1>5, <2>1
    <3>3. /\ Len(original[d]) \in Nat \ {0}
          /\ SubSeq(original[d], 1, Len(original[d]) - 1) \in Seq(Session)
          /\ Len(SubSeq(original[d], 1, Len(original[d]) - 1))
               = Len(original[d]) - 1
          /\ \A k \in 1..(Len(original[d]) - 1) :
               SubSeq(original[d], 1, Len(original[d]) - 1)[k] = original[d][k]
      BY <3>2
    <3>4. /\ original' \in [Shared -> Seq(Session)]
          /\ original'[d] = SubSeq(original[d], 1, Len(original[d]) - 1)
          /\ \A e \in Shared : e # d => original'[e] = original[e]
      BY <1>2, <2>1, <3>1, <3>3
    <3>5. \A e \in Shared : Len(original[e]) \in Nat
      BY <1>2
    <3> QED
      BY <2>1, <3>3, <3>4, <3>5
  <2>2. CASE d \notin Shared
    <3>1. original' = original
      BY <2>2 DEF LeaveBlock, b
    <3> QED
      BY <1>2, <2>2, <3>1
  <2> QED
    BY <2>1, <2>2
<1>8. TypeOK'
  <2>1. open' \in [Threads -> Seq(Block)]
    BY <1>1, <1>2, <1>4
  <2>2. session' \in [Threads -> Session]
    BY <1>2, <1>3, <1>6
  <2>3. todo' \in [Threads -> Seq(Op)]
    BY <1>1, <1>2
  <2> QED
    BY <1>1, <1>7, <2>1, <2>2, <2>3 DEF IInv, TypeOK
<1>9. OneBusy'
  <2>1. \A u \in Threads : ~busy[u] => open'[u] = open[u]
    BY <1>1, <1>4
  <2> QED
    BY <1>1, <2>1 DEF IInv, OneBusy
<1>10. ASSUME NEW u \in Threads, NEW i \in 1..Len(open'[u])
       PROVE  /\ i \in 1..Len(open[u]) /\ open'[u][i] = open[u][i]
              /\ u = t => i < n
  BY <1>4, <1>10
<1>11. Ordered'
  BY <1>10 DEF IInv, Ordered
<1>12. ASSUME NEW u \in Threads, NEW i \in 1..Len(open'[u]),
              open[u][i].deco = d, d \in Shared
       PROVE  open[u][i].depth < Len(original[d])
  <2>1. u = t
    <3>1. open[u] # <<>>
      BY <1>2, <1>10, <1>12
    <3> QED
      BY <1>1, <3>1 DEF IInv, OneBusy
  <2>2. i \in 1..n /\ i < n /\ n \in 1..n
    BY <1>4, <1>10, <1>12, <2>1
  <2>3. open[t][i].depth < open[t][n].depth
    BY <1>4, <1>12, <2>1, <2>2 DEF IInv, Ordered
  <2> QED
    BY <1>4, <1>5, <1>12, <2>1, <2>3
<1>13. Matched'
  <2>1. SUFFICES ASSUME NEW u \in Threads, NEW i \in 1..Len(open'[u]),
                        open[u][i].deco \in Shared
                 PROVE  /\ open[u][i].depth
                             \in 1..Len(original'[open[u][i].deco])
                        /\ original'[open[u][i].deco][open[u][i].depth]
                             = open[u][i].before
    <3>1. \A u \in Threads : \A i \in 1..Len(open'[u]) :
            open'[u][i] = open[u][i]
      BY <1>10
    <3> QED
      BY <3>1 DEF Matched
  <2>2. /\ open[u][i].depth \in 1..Len(original[open[u][i].deco])
        /\ original[open[u][i].deco][open[u][i].depth] = open[u][i].before
    BY <1>10, <2>1 DEF IInv, Matched
  <2>3. CASE open[u][i].deco = d
    <3>1. open[u][i].depth < Len(original[d])
      BY <1>12, <2>1, <2>3
    <3>2. open[u][i].depth \in 1..(Len(original[d]) - 1)
      BY <1>7, <2>1, <2>2, <2>3, <3>1
    <3> QED
      BY <1>7, <2>1, <2>2, <2>3, <3>2
  <2>4. CASE open[u][i].deco # d
    BY <1>7, <2>1, <2>2, <2>4
  <2> QED
    BY <2>3, <2>4
<1>14. Covered'
  <2>1. SUFFICES ASSUME NEW e \in Shared, NEW k \in 1..Len(original'[e])
                 PROVE  \E u \in Threads : \E i \in 1..Len(open'[u]) :
                          open'[u][i].deco = e /\ open'[u][i].depth = k
    BY DEF Covered
  <2>2. k \in 1..Len(original[e]) /\ (e = d => k < Len(original[e]))
    BY <1>7, <2>1
  <2>6. PICK u \in Threads : \E i \in 1..Len(open[u]) :
          open[u][i].deco = e /\ open[u][i].depth = k
    BY <2>1, <2>2 DEF IInv, Covered
  <2>3. PICK i \in 1..Len(open[u]) :
          open[u][i].deco = e /\ open[u][i].depth = k
    BY <2>6
  <2>4. ~ (u = t /\ i = n)
    <3>1. SUFFICES ASSUME u = t, i = n PROVE FALSE
      OBVIOUS
    <3>2. e = d /\ k = Len(original[d])
      BY <1>4, <1>5, <2>1, <2>3, <3>1
    <3> QED
      BY <1>7, <2>1, <2>2, <3>2
  <2>5. i \in 1..Len(open'[u]) /\ open'[u][i] = open[u][i]
    <3>1. CASE u = t
      BY <1>4, <2>3, <2>4, <3>1
    <3>2. CASE u # t
      BY <1>4, <2>3, <3>2
    <3> QED
      BY <3>1, <3>2
  <2> QED
    BY <2>3, <2>5
<1> QED
  BY <1>2, <1>6, <1>8, <1>9, <1>11, <1>13, <1>14 DEF IInv, b

LEMMA NextInv ==
  ASSUME OneRequestAtATime, IInv, [Next]_vars
  PROVE  IInv'
<1>1. ASSUME NEW t \in Threads, Accept(t) PROVE IInv'
  BY <1>1, AcceptInv
<1>2. ASSUME NEW t \in Threads, RequireGroup(t) \/ RefuseBlock(t) \/ Raise(t)
      PROVE  IInv'
  BY <1>2, TodoInv
<1>3. ASSUME NEW t \in Threads, EnterBlock(t) PROVE IInv'
  BY <1>3, EnterInv
<1>4. ASSUME NEW t \in Threads, LeaveBlock(t) PROVE IInv'
  BY <1>4, LeaveInv
<1>5. ASSUME NEW t \in Threads, InstallSession(t) PROVE IInv'
  BY <1>5, InstallInv
<1>6. ASSUME NEW t \in Threads, Respond(t) PROVE IInv'
  BY <1>6, RespondInv
<1>7. CASE UNCHANGED vars
  BY <1>7 DEF vars, IInv, TypeOK, OneBusy, Matched, Ordered, Covered
<1> QED
  BY <1>1, <1>2, <1>3, <1>4, <1>5, <1>6, <1>7 DEF Next

-----------------------------------------------------------------------------
(* In a worker that serves one request at a time:                          *)

(* - the variables keep their types: a list is never popped when empty;    *)
THEOREM StackType ==
  ASSUME OneRequestAtATime
  PROVE  Spec => []TypeOK
<1>1. IInv /\ [Next]_vars => IInv'
  BY NextInv
<1>2. IInv => TypeOK
  BY DEF IInv
<1> QED
  BY <1>1, <1>2, InitInv, PTL DEF Spec

(* - between requests no session is left over on a shared list;            *)
THEOREM StackDrained ==
  ASSUME OneRequestAtATime
  PROVE  Spec => []ListsDrained
<1>1. IInv /\ [Next]_vars => IInv'
  BY NextInv
<1>2. IInv => ListsDrained
  <2> SUFFICES ASSUME IInv, \A t \in Threads : ~busy[t], NEW d \in Shared
               PROVE  original[d] = <<>>
    BY DEF ListsDrained
  <2>1. original[d] \in Seq(Session)
    BY DEF IInv, TypeOK
  <2>2. \A t \in Threads : open[t] = <<>>
    BY DEF IInv, OneBusy
  <2>3. \A k \in 1..Len(original[d]) : FALSE
    BY <2>2 DEF IInv, Covered
  <2> QED
    BY <2>1, <2>3
<1> QED
  BY <1>1, <1>2, InitInv, PTL DEF Spec

(* - and a block gives back the session it was entered with.               *)
THEOREM StackRestores ==
  ASSUME OneRequestAtATime
  PROVE  Spec => LeavingRestores
<1>1. IInv /\ [Next]_vars => IInv'
  BY NextInv
<1>2. ASSUME IInv, [Next]_vars, NEW t \in Threads,
             Len(open'[t]) < Len(open[t])
      PROVE  session'[t] = Innermost(t).before
  <2>1. open \in [Threads -> Seq(Block)]
    BY <1>2 DEF IInv, TypeOK
  <2>2. open'[t] # open[t]
    <3>1. Len(open[t]) \in Nat
      BY <2>1
    <3> QED
      BY <1>2, <3>1
  <2>3. PICK u \in Threads : EnterBlock(u) \/ LeaveBlock(u)
    BY <1>2, <2>2 DEF Next, vars, Accept, RequireGroup, RefuseBlock,
                      InstallSession, Raise, Respond
  <2>4. u = t
    <3>1. \A v \in Threads : v # u => open'[v] = open[v]
      BY <2>1, <2>3 DEF EnterBlock, LeaveBlock
    <3> QED
      BY <2>2, <3>1
  <2>5. CASE EnterBlock(t)
    <3>1. PICK b : open' = [open EXCEPT ![t] = Append(@, b)]
      BY <2>5 DEF EnterBlock
    <3>2. Len(open'[t]) = Len(open[t]) + 1 /\ Len(open[t]) \in Nat
      BY <2>1, <3>1
    <3> QED
      BY <1>2, <3>2
  <2>6. CASE LeaveBlock(t)
    BY <1>2, <2>6, LeaveInv
  <2> QED
    BY <2>3, <2>4, <2>5, <2>6
<1>3. IInv /\ [Next]_vars =>
        [\A t \in Threads : Len(open'[t]) < Len(open[t]) =>
           session'[t] = Innermost(t).before]_vars
  BY <1>2
<1> QED
  BY <1>1, <1>3, InitInv, PTL DEF Spec, LeavingRestores
-----------------------------------------------------------------------------
(* Blocks within blocks.                                                   *)

(* What a step of a handler does to the number of blocks that are open; a  *)
(* session is only installed outside of any.                               *)
Moves(op, a, b) ==
  \/ op.do = "require" /\ b = a
  \/ op.do = "enter" /\ b = a + 1
  \/ op.do = "leave" /\ a = b + 1
  \/ op.do = "install" /\ a = 0 /\ b = 0

(* The steps s lead from a open blocks to b, through h. *)
Nests(s, a, b) ==
  \E h \in [1..(Len(s) + 1) -> Nat] :
    /\ h[1] = a /\ h[Len(s) + 1] = b
    /\ \A k \in 1..Len(s) : Moves(s[k], h[k], h[k + 1])

LEMMA NestsNothing ==
  ASSUME NEW a \in Nat
  PROVE  Nests(<<>>, a, a)
<1> DEFINE h == [k \in 1..1 |-> a]
<1>1. h \in [1..(Len(<<>>) + 1) -> Nat] /\ h[1] = a /\ h[Len(<<>>) + 1] = a
  OBVIOUS
<1> HIDE DEF h
<1> QED
  BY <1>1 DEF Nests

LEMMA NestsOne ==
  ASSUME NEW op \in Op, NEW a \in Nat, NEW b \in Nat, Moves(op, a, b)
  PROVE  Nests(<<op>>, a, b)
<1> DEFINE h == [k \in 1..2 |-> IF k = 1 THEN a ELSE b]
           s == <<op>>
<1>1. s \in Seq(Op) /\ Len(s) = 1 /\ s[1] = op
  OBVIOUS
<1>2. h \in [1..2 -> Nat] /\ h[1] = a /\ h[2] = b
  OBVIOUS
<1> HIDE DEF h, s
<1>3. h \in [1..(Len(s) + 1) -> Nat] /\ h[Len(s) + 1] = b
      /\ \A k \in 1..Len(s) : k = 1 /\ k + 1 = 2
  BY <1>1, <1>2
<1>4. \A k \in 1..Len(s) : Moves(s[k], h[k], h[k + 1])
  BY <1>1, <1>2, <1>3
<1>5. Nests(s, a, b)
  BY <1>2, <1>3, <1>4 DEF Nests
<1> QED
  BY <1>5 DEF s

LEMMA NestsTogether ==
  ASSUME NEW s \in Seq(Op), NEW u \in Seq(Op), NEW a, NEW b, NEW c,
         Nests(s, a, b), Nests(u, b, c)
  PROVE  Nests(s \o u, a, c)
<1>1. PICK g \in [1..(Len(s) + 1) -> Nat] :
        /\ g[1] = a /\ g[Len(s) + 1] = b
        /\ \A k \in 1..Len(s) : Moves(s[k], g[k], g[k + 1])
  BY DEF Nests
<1>2. PICK h \in [1..(Len(u) + 1) -> Nat] :
        /\ h[1] = b /\ h[Len(u) + 1] = c
        /\ \A k \in 1..Len(u) : Moves(u[k], h[k], h[k + 1])
  BY DEF Nests
<1> DEFINE m == Len(s)
           n == Len(u)
           f == [k \in 1..(m + n + 1) |-> IF k <= m THEN g[k] ELSE h[k - m]]
<1>3. /\ m \in Nat /\ n \in Nat /\ Len(s \o u) = m + n
      /\ \A k \in 1..(m + n) : (s \o u)[k] = IF k <= m THEN s[k] ELSE u[k - m]
  OBVIOUS
<1> HIDE DEF m, n
<1>4. /\ \A k \in 1..m : g[k] \in Nat
      /\ \A k \in (m + 1)..(m + n + 1) : h[k - m] \in Nat
  <2>1. g \in [1..(m + 1) -> Nat] /\ h \in [1..(n + 1) -> Nat]
    BY <1>1, <1>2 DEF m, n
  <2>2. \A k \in 1..m : k \in 1..(m + 1)
    BY <1>3
  <2>3. \A k \in (m + 1)..(m + n + 1) : k - m \in 1..(n + 1)
    BY <1>3
  <2> QED
    BY <2>1, <2>2, <2>3
<1>5. f \in [1..(m + n + 1) -> Nat]
  BY <1>3, <1>4
<1>6. \A k \in 1..(m + n + 1) : f[k] = IF k <= m THEN g[k] ELSE h[k - m]
  OBVIOUS
<1> HIDE DEF f
<1>7. f[1] = a
  <2>1. CASE m = 0
    <3>1. f[1] = h[1]
      BY <1>3, <1>6, <2>1
    <3> QED
      BY <1>1, <1>2, <2>1, <3>1 DEF m
  <2>2. CASE m # 0
    BY <1>1, <1>3, <1>6, <2>2
  <2> QED
    BY <2>1, <2>2
<1>8. f[m + n + 1] = c
  <2>1. f[m + n + 1] = h[n + 1]
    BY <1>3, <1>6
  <2> QED
    BY <1>2, <2>1 DEF n
<1>9. ASSUME NEW k \in 1..(m + n) PROVE Moves((s \o u)[k], f[k], f[k + 1])
  <2>1. CASE k < m
    <3>1. k \in 1..m /\ f[k] = g[k] /\ f[k + 1] = g[k + 1] /\ (s \o u)[k] = s[k]
      BY <1>3, <1>6, <2>1
    <3> QED
      BY <1>1, <3>1 DEF m
  <2>2. CASE k = m
    <3>1. k \in 1..m /\ f[k] = g[k] /\ f[k + 1] = h[1] /\ (s \o u)[k] = s[k]
      BY <1>3, <1>6, <2>2
    <3>2. h[1] = g[k + 1]
      BY <1>1, <1>2, <2>2 DEF m
    <3> QED
      BY <1>1, <3>1, <3>2 DEF m
  <2>3. CASE k > m
    <3>1. /\ k - m \in 1..n /\ f[k] = h[k - m] /\ f[k + 1] = h[(k - m) + 1]
          /\ (s \o u)[k] = u[k - m]
      BY <1>3, <1>6, <2>3
    <3> QED
      BY <1>2, <3>1 DEF n
  <2> QED
    BY <1>3, <2>1, <2>2, <2>3
<1> QED
  BY <1>3, <1>5, <1>7, <1>8, <1>9 DEF Nests

LEMMA NestsTail ==
  ASSUME NEW s \in Seq(Op), s # <<>>, NEW a \in Nat, NEW b \in Nat, Nests(s, a, b)
  PROVE  \E c \in Nat : Moves(Head(s), a, c) /\ Nests(Tail(s), c, b)
<1>1. PICK h \in [1..(Len(s) + 1) -> Nat] :
        /\ h[1] = a /\ h[Len(s) + 1] = b
        /\ \A k \in 1..Len(s) : Moves(s[k], h[k], h[k + 1])
  BY DEF Nests
<1> DEFINE n == Len(s) - 1
           f == [k \in 1..(n + 1) |-> h[k + 1]]
<1>2. /\ n \in Nat /\ Len(s) = n + 1 /\ Head(s) = s[1] /\ Len(Tail(s)) = n
      /\ \A k \in 1..n : Tail(s)[k] = s[k + 1]
  OBVIOUS
<1> HIDE DEF n
<1>3. \A k \in 1..(n + 1) : f[k] = h[k + 1]
  OBVIOUS
<1>4. f \in [1..(n + 1) -> Nat]
  BY <1>1, <1>2
<1> HIDE DEF f
<1>5. f[1] \in Nat /\ f[1] = h[2] /\ f[n + 1] = b
  BY <1>1, <1>2, <1>3, <1>4
<1>6. Moves(Head(s), a, f[1])
  <2>1. 1 \in 1..Len(s) /\ 1 + 1 = 2
    BY <1>2
  <2> QED
    BY <1>1, <1>2, <1>5, <2>1
<1>7. \A k \in 1..n : Moves(Tail(s)[k], f[k], f[k + 1])
  <2> SUFFICES ASSUME NEW k \in 1..n PROVE Moves(Tail(s)[k], f[k], f[k + 1])
    OBVIOUS
  <2>1. k + 1 \in 1..Len(s) /\ k \in 1..(n + 1) /\ k + 1 \in 1..(n + 1)
    BY <1>2
  <2> QED
    BY <1>1, <1>2, <1>3, <2>1
<1>8. Nests(Tail(s), f[1], b)
  BY <1>2, <1>4, <1>5, <1>7 DEF Nests
<1> QED
  BY <1>5, <1>6, <1>8

(* The exits that are left when a handler is left: one for each block. *)
LEMMA NestsUnwind ==
  ASSUME TypeOK, NEW t \in Threads
  PROVE  Nests(Unwind(t), Len(open[t]), 0)
<1> DEFINE n == Len(open[t])
           h == [k \in 1..(n + 1) |-> n + 1 - k]
<1>1. n \in Nat
  BY DEF TypeOK
<1> HIDE DEF n
<1>2. Unwind(t) \in Seq(Op) /\ Len(Unwind(t)) = n
      /\ \A k \in 1..n : Unwind(t)[k] = Leave
  BY <1>1, UnwindType DEF Unwind, n
<1>3. h \in [1..(n + 1) -> Nat] /\ h[1] = n /\ h[n + 1] = 0
      /\ \A k \in 1..n : h[k] = h[k + 1] + 1
  BY <1>1
<1> HIDE DEF h
<1>4. \A k \in 1..n : Moves(Unwind(t)[k], h[k], h[k + 1])
  BY <1>2, <1>3 DEF Moves, Leave
<1> QED
  BY <1>2, <1>3, <1>4 DEF Nests, n

LEMMA NestsTwo ==
  ASSUME NEW x \in Op, NEW y \in Op, NEW a \in Nat, NEW b \in Nat, NEW c \in Nat,
         Moves(x, a, b), Moves(y, b, c)
  PROVE  Nests(<<x, y>>, a, c)
<1> DEFINE h == [k \in 1..3 |-> IF k = 1 THEN a ELSE IF k = 2 THEN b ELSE c]
           s == <<x, y>>
<1>1. s \in Seq(Op) /\ Len(s) = 2 /\ s[1] = x /\ s[2] = y
  OBVIOUS
<1>2. h \in [1..3 -> Nat] /\ h[1] = a /\ h[2] = b /\ h[3] = c
  OBVIOUS
<1> HIDE DEF h, s
<1>3. h \in [1..(Len(s) + 1) -> Nat] /\ h[Len(s) + 1] = c
      /\ \A k \in 1..Len(s) : (k = 1 /\ k + 1 = 2) \/ (k = 2 /\ k + 1 = 3)
  BY <1>1, <1>2
<1>4. \A k \in 1..Len(s) : Moves(s[k], h[k], h[k + 1])
  BY <1>1, <1>2, <1>3
<1>5. Nests(s, a, c)
  BY <1>2, <1>3, <1>4 DEF Nests
<1> QED
  BY <1>5 DEF s

LEMMA NestsThree ==
  ASSUME NEW x \in Op, NEW y \in Op, NEW z \in Op,
         NEW a \in Nat, NEW b \in Nat, NEW c \in Nat, NEW d \in Nat,
         Moves(x, a, b), Moves(y, b, c), Moves(z, c, d)
  PROVE  Nests(<<x, y, z>>, a, d)
<1> DEFINE h == [k \in 1..4 |-> IF k = 1 THEN a ELSE IF k = 2 THEN b
                                ELSE IF k = 3 THEN c ELSE d]
           s == <<x, y, z>>
<1>1. s \in Seq(Op) /\ Len(s) = 3 /\ s[1] = x /\ s[2] = y /\ s[3] = z
  OBVIOUS
<1>2. h \in [1..4 -> Nat] /\ h[1] = a /\ h[2] = b /\ h[3] = c /\ h[4] = d
  OBVIOUS
<1> HIDE DEF h, s
<1>3. h \in [1..(Len(s) + 1) -> Nat] /\ h[Len(s) + 1] = d
      /\ \A k \in 1..Len(s) :
           (k = 1 /\ k + 1 = 2) \/ (k = 2 /\ k + 1 = 3) \/ (k = 3 /\ k + 1 = 4)
  BY <1>1, <1>2
<1>4. \A k \in 1..Len(s) : Moves(s[k], h[k], h[k + 1])
  BY <1>1, <1>2, <1>3
<1>5. Nests(s, a, d)
  BY <1>2, <1>3, <1>4 DEF Nests
<1> QED
  BY <1>5 DEF s

LEMMA OpsMove ==
  /\ \A d \in Decorators, a \in Nat : Moves(Enter(d), a, a + 1)
  /\ \A g \in Groups, a \in Nat : Moves(Require(g), a, a)
  /\ \A a \in Nat : Moves(Leave, a + 1, a)
  /\ Moves(Install, 0, 0)
  BY DEF Moves, Enter, Require, Leave, Install

LEMMA SessionFromProfileNests ==
  ASSUME NEW a \in BOOLEAN, NEW n \in Nat
  PROVE  Nests(SessionFromProfile(a), n, n)
<1> DEFINE head == <<Enter("do_as_root"), Leave, Enter("do_with_groups")>>
           middle == IF a THEN <<Enter("do_as_root"), Leave>> ELSE <<>>
<1>1. /\ Enter("do_as_root") \in Op /\ Enter("do_with_groups") \in Op /\ Leave \in Op
      /\ \A k \in Nat : Moves(Enter("do_as_root"), k, k + 1)
                        /\ Moves(Enter("do_with_groups"), k, k + 1)
                        /\ Moves(Leave, k + 1, k)
  BY OpsType, OpsMove DEF Decorators, Shared
<1>2. n + 1 \in Nat /\ (n + 1) + 1 \in Nat
  OBVIOUS
<1>3. Nests(head, n, n + 1) /\ head \in Seq(Op)
  BY <1>1, <1>2, NestsThree
<1>4. Nests(<<Enter("do_as_root"), Leave>>, n + 1, n + 1)
  BY <1>1, <1>2, NestsTwo
<1>5. Nests(middle, n + 1, n + 1) /\ middle \in Seq(Op)
  BY <1>1, <1>2, <1>4, NestsNothing
<1>6. Nests(<<Leave>>, n + 1, n) /\ <<Leave>> \in Seq(Op)
  BY <1>1, <1>2, NestsOne
<1>7. SessionFromProfile(a) = head \o middle \o <<Leave>>
  BY DEF SessionFromProfile
<1> HIDE DEF head, middle
<1>8. Nests(head \o middle, n, n + 1) /\ head \o middle \in Seq(Op)
  BY <1>3, <1>5, NestsTogether, ConcatProperties
<1> QED
  BY <1>6, <1>7, <1>8, NestsTogether

(* Every handler leaves the blocks it enters, and installs a session only  *)
(* when it is in none.                                                     *)
LEMMA HandlersNest == \A h \in Handlers : Nests(h, 0, 0)
<1>1. /\ Enter("do_as_root") \in Op /\ Enter("sudo_push") \in Op
      /\ Leave \in Op /\ Install \in Op
      /\ \A k \in Nat : Moves(Enter("do_as_root"), k, k + 1)
                        /\ Moves(Enter("sudo_push"), k, k + 1)
                        /\ Moves(Leave, k + 1, k)
      /\ Moves(Install, 0, 0)
  BY OpsType, OpsMove DEF Decorators, Shared
<1>2. \A g \in {admin, user, everybody} : Require(g) \in Op /\ Moves(Require(g), 0, 0)
  BY OpsType, OpsMove DEF Groups
<1>3. Moves(Enter("do_as_root"), 0, 1) /\ Moves(Enter("sudo_push"), 0, 1)
      /\ Moves(Leave, 1, 0)
  BY <1>1
<1>4. \A a \in BOOLEAN, n \in Nat :
        /\ SessionFromProfile(a) \in Seq(Op)
        /\ Nests(SessionFromProfile(a), n, n)
  BY SessionFromProfileType, SessionFromProfileNests
<1>5. \A g \in {admin, user, everybody} :
        /\ <<Require(g)>> \in Seq(Op) /\ Nests(<<Require(g)>>, 0, 0)
        /\ <<Require(g), Enter("do_as_root"), Leave>> \in Seq(Op)
        /\ Nests(<<Require(g), Enter("do_as_root"), Leave>>, 0, 0)
  BY <1>1, <1>2, <1>3, NestsOne, NestsThree
<1>6. /\ <<Install>> \in Seq(Op) /\ Nests(<<Install>>, 0, 0)
      /\ <<Leave, Install>> \in Seq(Op) /\ Nests(<<Leave, Install>>, 1, 0)
      /\ <<Enter("do_as_root")>> \in Seq(Op)
      /\ Nests(<<Enter("do_as_root")>>, 0, 1)
  BY <1>1, <1>3, NestsOne, NestsTwo
<1>7. ASSUME NEW a \in BOOLEAN PROVE Nests(SudoPost(a), 0, 0)
  <2> DEFINE start == <<Require(admin), Enter("do_as_root"), Leave>>
  <2>1. start \in Seq(Op) /\ Nests(start, 0, 0)
    BY <1>5
  <2>2. SudoPost(a) = start \o SessionFromProfile(a) \o <<Install>>
    BY DEF SudoPost
  <2> HIDE DEF start
  <2>3. /\ Nests(start \o SessionFromProfile(a), 0, 0)
        /\ start \o SessionFromProfile(a) \in Seq(Op)
    BY <1>4, <2>1, NestsTogether, ConcatProperties
  <2> QED
    BY <1>6, <2>2, <2>3, NestsTogether
<1>8. Nests(SessionForAppPost, 0, 0)
  <2>1. /\ Nests(<<Require(user)>> \o SessionFromProfile(TRUE), 0, 0)
        /\ <<Require(user)>> \o SessionFromProfile(TRUE) \in Seq(Op)
    BY <1>4, <1>5, NestsTogether, ConcatProperties
  <2> QED
    BY <1>6, <2>1, NestsTogether DEF SessionForAppPost
<1>9. /\ Nests(SessionPut, 0, 0) /\ Nests(SignUpGet, 0, 0)
      /\ Nests(PushEventPost, 0, 0)
  BY <1>1, <1>2, <1>3, NestsTwo DEF SessionPut, SignUpGet, PushEventPost
<1>10. ASSUME NEW s \in BOOLEAN PROVE Nests(OAuthCallbackGet(s), 0, 0)
  <2> DEFINE start == <<Require(everybody), Enter("do_as_root"), Leave>>
             begin == <<Enter("do_as_root")>> \o SessionFromProfile(TRUE)
             inner == begin \o <<Leave, Install>>
             rest == IF s THEN inner ELSE <<>>
             logIn == start \o SessionFromProfile(FALSE)
  <2>1. start \in Seq(Op) /\ Nests(start, 0, 0)
    BY <1>5
  <2>2. OAuthCallbackGet(s) = logIn \o <<Install>> \o rest
    BY DEF OAuthCallbackGet
  <2>3. Nests(begin, 0, 1) /\ begin \in Seq(Op)
    BY <1>4, <1>6, NestsTogether, ConcatProperties
  <2> HIDE DEF start, begin
  <2>4. Nests(inner, 0, 0) /\ inner \in Seq(Op)
    BY <1>6, <2>3, NestsTogether, ConcatProperties
  <2> HIDE DEF inner
  <2>5. Nests(rest, 0, 0) /\ rest \in Seq(Op)
    BY <2>4, NestsNothing
  <2> HIDE DEF rest
  <2>6. Nests(logIn, 0, 0) /\ logIn \in Seq(Op)
    BY <1>4, <2>1, NestsTogether, ConcatProperties
  <2> HIDE DEF logIn
  <2>7. Nests(logIn \o <<Install>>, 0, 0) /\ logIn \o <<Install>> \in Seq(Op)
    BY <1>6, <2>6, NestsTogether, ConcatProperties
  <2> QED
    BY <2>2, <2>5, <2>7, NestsTogether
<1> QED
  BY <1>7, <1>8, <1>9, <1>10 DEF Handlers

-----------------------------------------------------------------------------
(* What a session has, block by block.                                     *)

(* A session s with the groups of the first n of the blocks bs. *)
With(s, bs, n) ==
  [s EXCEPT !.groups = @ \cup UNION {Added(bs[i].deco) : i \in 1..n}]

(* A request is at a place of its handler from which the blocks still      *)
(* nest, each of its blocks was entered with the groups of those around    *)
(* it, and it has the groups of all.                                       *)
Nested(t) ==
  busy[t] =>
    /\ Nests(todo[t], Len(open[t]), 0)
    /\ \A i \in 1..Len(open[t]) : open[t][i].before = With(own[t], open[t], i - 1)
    /\ session[t] = With(own[t], open[t], Len(open[t]))

AllNested == \A t \in Threads : Nested(t)

LEMMA WithNone ==
  ASSUME NEW s \in Session, NEW bs
  PROVE  With(s, bs, 0) = s
<1>1. UNION {Added(bs[i].deco) : i \in 1..0} = {}
  OBVIOUS
<1> QED
  BY <1>1 DEF With, Session

LEMMA WithOneMore ==
  ASSUME NEW s \in Session, NEW bs, NEW n \in Nat
  PROVE  With(s, bs, n + 1)
           = [With(s, bs, n) EXCEPT !.groups = @ \cup Added(bs[n + 1].deco)]
<1> DEFINE A(i) == Added(bs[i].deco)
<1>1. UNION {A(i) : i \in 1..(n + 1)} = (UNION {A(i) : i \in 1..n}) \cup A(n + 1)
  <2>1. 1..(n + 1) = 1..n \cup {n + 1}
    OBVIOUS
  <2> HIDE DEF A
  <2> QED
    BY <2>1
<1> DEFINE G(k) == UNION {A(i) : i \in 1..k}
<1>2. G(n + 1) = G(n) \cup A(n + 1)
  BY <1>1
<1>3. \A k : With(s, bs, k) = [s EXCEPT !.groups = @ \cup G(k)]
  BY DEF With
<1> HIDE DEF G, A
<1>4. With(s, bs, n + 1) = [With(s, bs, n) EXCEPT !.groups = @ \cup A(n + 1)]
  <2> DEFINE w == [s EXCEPT !.groups = @ \cup G(n)]
  <2>1. w.groups = s.groups \cup G(n)
    BY DEF Session
  <2>2. [w EXCEPT !.groups = s.groups \cup G(n + 1)]
          = [s EXCEPT !.groups = s.groups \cup G(n + 1)]
    BY DEF Session
  <2>3. With(s, bs, n) = w
    BY <1>3
  <2>4. With(s, bs, n + 1) = [s EXCEPT !.groups = s.groups \cup G(n + 1)]
    BY <1>3
  <2>5. w.groups \cup A(n + 1) = s.groups \cup G(n + 1)
    BY <1>2, <2>1
  <2> HIDE DEF w
  <2> QED
    BY <2>2, <2>3, <2>4, <2>5
<1> QED
  BY <1>4 DEF A

LEMMA WithSame ==
  ASSUME NEW s, NEW bs, NEW cs, NEW n, \A i \in 1..n : bs[i] = cs[i]
  PROVE  With(s, bs, n) = With(s, cs, n)
<1>1. {Added(bs[i].deco) : i \in 1..n} = {Added(cs[i].deco) : i \in 1..n}
  OBVIOUS
<1> QED
  BY <1>1 DEF With

(* A request whose state nobody touches. *)
LEMMA ElsewhereNested ==
  ASSUME NEW u, Nested(u), busy'[u] = busy[u], todo'[u] = todo[u],
         open'[u] = open[u], own'[u] = own[u], session'[u] = session[u]
  PROVE  Nested(u)'
  BY DEF Nested

LEMMA NestedStep ==
  ASSUME IInv, AllNested, NEW t \in Threads,
         \/ Accept(t) \/ RequireGroup(t) \/ EnterBlock(t) \/ RefuseBlock(t)
         \/ LeaveBlock(t) \/ InstallSession(t) \/ Raise(t) \/ Respond(t),
         Nested(t)'
  PROVE  AllNested'
<1> SUFFICES ASSUME NEW u \in Threads, u # t PROVE Nested(u)'
  BY DEF AllNested
<1>1. /\ busy'[u] = busy[u] /\ todo'[u] = todo[u] /\ open'[u] = open[u]
      /\ own'[u] = own[u] /\ session'[u] = session[u]
  <2> USE DEF IInv, TypeOK
  <2>1. CASE Accept(t)
    BY <2>1 DEF Accept
  <2>2. CASE RequireGroup(t) \/ RefuseBlock(t) \/ Raise(t)
    BY <2>2 DEF RequireGroup, RefuseBlock, Raise
  <2>3. CASE EnterBlock(t)
    BY <2>3 DEF EnterBlock
  <2>4. CASE LeaveBlock(t)
    BY <2>4 DEF LeaveBlock
  <2>5. CASE InstallSession(t)
    BY <2>5 DEF InstallSession
  <2>6. CASE Respond(t)
    BY <2>6 DEF Respond
  <2> QED
    BY <2>1, <2>2, <2>3, <2>4, <2>5, <2>6
<1> QED
  BY <1>1, ElsewhereNested DEF AllNested

LEMMA InitNested == Init => AllNested
  BY DEF Init, AllNested, Nested

LEMMA AcceptNested ==
  ASSUME IInv, NEW t \in Threads, Accept(t)
  PROVE  Nested(t)'
<1>1. PICK s \in Arriving, h \in Handlers :
        /\ session' = [session EXCEPT ![t] = s]
        /\ own' = [own EXCEPT ![t] = s]
        /\ todo' = [todo EXCEPT ![t] = h]
  BY DEF Accept
<1>2. open' = open /\ open[t] = <<>>
  BY DEF Accept, IInv, OneBusy
<1>3. session'[t] = s /\ own'[t] = s /\ todo'[t] = h /\ s \in Session
      /\ Len(open'[t]) = 0
  BY <1>1, <1>2 DEF IInv, TypeOK, Arriving
<1>4. With(own'[t], open'[t], 0) = own'[t]
  BY <1>3, WithNone
<1>5. Nests(todo'[t], Len(open'[t]), 0)
  BY <1>3, HandlersNest
<1> QED
  BY <1>3, <1>4, <1>5 DEF Nested

(* What remains of a handler after a step of it. *)
LEMMA RestNests ==
  ASSUME IInv, NEW t \in Threads, busy[t], Nested(t), todo[t] # <<>>
  PROVE  \E c \in Nat : /\ Moves(Head(todo[t]), Len(open[t]), c)
                        /\ Nests(Tail(todo[t]), c, 0)
<1>1. todo[t] \in Seq(Op) /\ Len(open[t]) \in Nat
  BY DEF IInv, TypeOK
<1> QED
  BY <1>1, NestsTail DEF Nested

LEMMA TodoNested ==
  ASSUME IInv, NEW t \in Threads, Nested(t),
         RequireGroup(t) \/ RefuseBlock(t) \/ Raise(t)
  PROVE  Nested(t)'
<1>1. UNCHANGED <<busy, session, own, open>> /\ busy[t]
  BY DEF RequireGroup, RefuseBlock, Raise, Step
<1>3. Nests(Unwind(t), Len(open[t]), 0)
  BY NestsUnwind DEF IInv
<1>4. todo \in [Threads -> Seq(Op)]
  BY DEF IInv, TypeOK
<1>5. Nests(todo'[t], Len(open[t]), 0)
  <2>1. CASE RefuseBlock(t) \/ Raise(t)
    BY <1>3, <1>4, <2>1 DEF RefuseBlock, Raise
  <2>2. CASE RequireGroup(t)
    <3>1. todo[t] # <<>> /\ Head(todo[t]).do = "require"
      BY <2>2 DEF RequireGroup, Step
    <3>2. PICK c \in Nat : /\ Moves(Head(todo[t]), Len(open[t]), c)
                           /\ Nests(Tail(todo[t]), c, 0)
      BY <1>1, <3>1, RestNests
    <3>3. c = Len(open[t])
      BY <3>1, <3>2 DEF Moves
    <3>4. todo'[t] = Tail(todo[t]) \/ todo'[t] = Unwind(t)
      BY <1>4, <2>2 DEF RequireGroup
    <3> QED
      BY <1>3, <3>2, <3>3, <3>4
  <2> QED
    BY <2>1, <2>2
<1> QED
  BY <1>1, <1>5 DEF Nested

LEMMA InstallNested ==
  ASSUME IInv, NEW t \in Threads, Nested(t), InstallSession(t)
  PROVE  Nested(t)'
<1>1. PICK p \in Profiles :
        /\ session' = [session EXCEPT ![t] = NewSession(p)]
        /\ own' = [own EXCEPT ![t] = NewSession(p)]
  BY DEF InstallSession
<1>2. /\ todo' = [todo EXCEPT ![t] = Tail(@)] /\ UNCHANGED <<busy, open>>
      /\ busy[t] /\ todo[t] # <<>> /\ Head(todo[t]).do = "install"
  BY DEF InstallSession, Step
<1>3. PICK c \in Nat : /\ Moves(Head(todo[t]), Len(open[t]), c)
                       /\ Nests(Tail(todo[t]), c, 0)
  BY <1>2, RestNests
<1>4. c = 0 /\ Len(open[t]) = 0
  BY <1>2, <1>3 DEF Moves
<1>5. session'[t] = own'[t] /\ own'[t] \in Session /\ todo'[t] = Tail(todo[t])
      /\ open'[t] = open[t]
  BY <1>1, <1>2 DEF IInv, TypeOK, NewSession, Session, Groups
<1>6. With(own'[t], open'[t], 0) = own'[t]
  BY <1>5, WithNone
<1> QED
  BY <1>3, <1>4, <1>5, <1>6 DEF Nested

LEMMA EnterNested ==
  ASSUME IInv, NEW t \in Threads, Nested(t), EnterBlock(t)
  PROVE  Nested(t)'
<1> DEFINE d == Head(todo[t]).arg
           n == Len(open[t])
<1>1. /\ busy[t] /\ todo[t] # <<>> /\ Head(todo[t]).do = "enter"
      /\ session' = [session EXCEPT ![t].groups = @ \cup Added(d)]
      /\ todo' = [todo EXCEPT ![t] = Tail(@)]
      /\ UNCHANGED <<busy, own>>
  BY DEF EnterBlock, Step
<1> DEFINE b == [deco |-> d, before |-> session[t],
                 depth |-> IF d \in Shared THEN Len(original[d]) + 1 ELSE 1]
<1>2. open' = [open EXCEPT ![t] = Append(@, b)]
      /\ b.deco = d /\ b.before = session[t]
  BY DEF EnterBlock
<1> HIDE DEF b
<1>3. /\ open \in [Threads -> Seq(Block)] /\ n \in Nat /\ own[t] \in Session
      /\ session \in [Threads -> Session] /\ todo \in [Threads -> Seq(Op)]
  BY DEF IInv, TypeOK
<1>4. PICK c \in Nat : /\ Moves(Head(todo[t]), n, c)
                       /\ Nests(Tail(todo[t]), c, 0)
  BY <1>1, RestNests
<1>5. c = n + 1
  BY <1>1, <1>4 DEF Moves
<1>6. /\ Len(open'[t]) = n + 1 /\ open'[t][n + 1] = b
      /\ \A i \in 1..n : open'[t][i] = open[t][i]
  BY <1>2, <1>3
<1>7. /\ session'[t] = [session[t] EXCEPT !.groups = @ \cup Added(d)]
      /\ todo'[t] = Tail(todo[t]) /\ own'[t] = own[t]
  BY <1>1, <1>3
<1>8. /\ \A i \in 1..n : open[t][i].before = With(own[t], open[t], i - 1)
      /\ session[t] = With(own[t], open[t], n)
  BY <1>1 DEF Nested
<1> HIDE DEF d, n
<1>9. \A k \in 0..n : With(own'[t], open'[t], k) = With(own[t], open[t], k)
  <2> SUFFICES ASSUME NEW k \in 0..n
               PROVE  With(own'[t], open'[t], k) = With(own[t], open[t], k)
    OBVIOUS
  <2>0. \A i \in 1..k : i \in 1..n
    BY <1>3
  <2>1. \A i \in 1..k : open'[t][i] = open[t][i]
    BY <1>6, <2>0
  <2> QED
    BY <1>7, <2>1, WithSame
<1>10. session'[t] = With(own'[t], open'[t], n + 1)
  <2>1. With(own'[t], open'[t], n + 1)
          = [With(own'[t], open'[t], n) EXCEPT
               !.groups = @ \cup Added(open'[t][n + 1].deco)]
    <3>1. own'[t] \in Session
      BY <1>3, <1>7
    <3> QED
      BY <1>3, <3>1, WithOneMore
  <2>2. With(own'[t], open'[t], n) = session[t]
    BY <1>3, <1>8, <1>9
  <2> QED
    BY <1>2, <1>6, <1>7, <2>1, <2>2
<1>11. ASSUME NEW i \in 1..(n + 1)
       PROVE  open'[t][i].before = With(own'[t], open'[t], i - 1)
  <2>1. i - 1 \in 0..n /\ With(own'[t], open'[t], i - 1) = With(own[t], open[t], i - 1)
    BY <1>3, <1>9
  <2>2. CASE i = n + 1
    BY <1>2, <1>3, <1>6, <1>8, <2>1, <2>2
  <2>3. CASE i # n + 1
    <3>1. i \in 1..n
      BY <1>3, <2>3
    <3> QED
      BY <1>6, <1>8, <2>1, <3>1
  <2> QED
    BY <2>2, <2>3
<1>12. Nests(todo'[t], Len(open'[t]), 0)
  BY <1>4, <1>5, <1>6, <1>7
<1> QED
  BY <1>6, <1>10, <1>11, <1>12 DEF Nested

LEMMA LeaveNested ==
  ASSUME IInv, NEW t \in Threads, Nested(t), LeaveBlock(t)
  PROVE  Nested(t)'
<1> DEFINE n == Len(open[t])
<1>1. /\ busy[t] /\ todo[t] # <<>> /\ Head(todo[t]).do = "leave"
      /\ open[t] # <<>>
      /\ open' = [open EXCEPT ![t] = SubSeq(@, 1, Len(@) - 1)]
      /\ todo' = [todo EXCEPT ![t] = Tail(@)]
      /\ UNCHANGED <<busy, own>>
  BY DEF LeaveBlock, Step
<1>2. /\ open \in [Threads -> Seq(Block)] /\ own[t] \in Session
      /\ todo \in [Threads -> Seq(Op)]
  BY DEF IInv, TypeOK
<1>3. PICK c \in Nat : /\ Moves(Head(todo[t]), n, c)
                       /\ Nests(Tail(todo[t]), c, 0)
  BY <1>1, RestNests
<1>4. /\ n \in Nat \ {0} /\ open[t][n] = Innermost(t)
      /\ Len(open'[t]) = n - 1
      /\ \A i \in 1..(n - 1) : open'[t][i] = open[t][i]
  BY <1>1, <1>2, InnermostType DEF IInv, Innermost
<1>5. c = n - 1
  BY <1>1, <1>3, <1>4 DEF Moves
<1>6. todo'[t] = Tail(todo[t]) /\ own'[t] = own[t]
      /\ session'[t] = Innermost(t).before
  BY <1>1, <1>2, LeaveInv
<1>7. \A i \in 1..n : open[t][i].before = With(own[t], open[t], i - 1)
  BY <1>1 DEF Nested
<1> HIDE DEF n
<1>8. \A k \in 0..(n - 1) : With(own'[t], open'[t], k) = With(own[t], open[t], k)
  <2> SUFFICES ASSUME NEW k \in 0..(n - 1) PROVE With(own'[t], open'[t], k) = With(own[t], open[t], k)
    OBVIOUS
  <2>1. \A i \in 1..k : open'[t][i] = open[t][i]
    BY <1>4
  <2> QED
    BY <1>6, <2>1, WithSame
<1>9. session'[t] = With(own'[t], open'[t], n - 1)
  <2>1. n \in 1..n /\ n - 1 \in 0..(n - 1)
    BY <1>4
  <2> QED
    BY <1>4, <1>6, <1>7, <1>8, <2>1
<1>10. ASSUME NEW i \in 1..(n - 1)
       PROVE  open'[t][i].before = With(own'[t], open'[t], i - 1)
  <2>1. i \in 1..n /\ i - 1 \in 0..(n - 1)
    BY <1>4
  <2> QED
    BY <1>4, <1>7, <1>8, <2>1
<1>11. Nests(todo'[t], Len(open'[t]), 0)
  BY <1>3, <1>4, <1>5, <1>6
<1> QED
  BY <1>4, <1>9, <1>10, <1>11 DEF Nested

LEMMA NextNested == IInv /\ AllNested /\ [Next]_vars => AllNested'
<1> SUFFICES ASSUME IInv, AllNested, [Next]_vars PROVE AllNested'
  OBVIOUS
<1>1. ASSUME NEW t \in Threads,
             \/ Accept(t) \/ RequireGroup(t) \/ EnterBlock(t) \/ RefuseBlock(t)
             \/ LeaveBlock(t) \/ InstallSession(t) \/ Raise(t) \/ Respond(t)
      PROVE  Nested(t)'
  <2>1. Nested(t)
    BY DEF AllNested
  <2>2. CASE Respond(t)
    BY <2>2 DEF Respond, Nested, IInv, TypeOK
  <2> QED
    BY <1>1, <2>1, <2>2, AcceptNested, TodoNested, EnterNested, LeaveNested,
       InstallNested
<1>2. CASE UNCHANGED vars
  BY <1>2, ElsewhereNested DEF vars, AllNested
<1> QED
  BY <1>1, <1>2, NestedStep DEF Next

(* - a request has the groups of the blocks it is in, and no other: each   *)
(*   block gives back what it was entered with, every handler leaves the   *)
(*   blocks it enters, however it ends, and none installs a session inside *)
(*   of one.                                                               *)
THEOREM StackGroups ==
  ASSUME OneRequestAtATime
  PROVE  Spec => []EffectiveGroups
<1>1. IInv /\ [Next]_vars => IInv'
  BY NextInv
<1>2. AllNested => EffectiveGroups
  BY DEF AllNested, Nested, EffectiveGroups, With
<1> QED
  BY <1>1, <1>2, InitInv, InitNested, NextNested, PTL DEF Spec
=============================================================================
