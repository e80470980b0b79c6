-------------------------- MODULE PluginManagerProofs --------------------------
(***************************************************************************)
(* Init and fini functions, cached pointers and what is left behind, for   *)
(* any plugins, any dependencies between them and any use of the manager.  *)
(***************************************************************************)
EXTENDS PluginManager, SequenceTheorems, FiniteSetTheorems, TLAPS

-----------------------------------------------------------------------------
(* The invariant *)

Listened == {<<>>, <<"executor">>, <<"holder", "executor">>, <<"executor", "holder">>}

AllTurns == [stage : StageNames, plugin : Plugins]

Typed ==
  /\ contexts \in Seq(Plugins) /\ IsInjective(contexts)
  /\ listeners \in [Plugins -> Listened]
  /\ interfaces \in SUBSET Implementations
  /\ inited \in [Plugins -> BOOLEAN] /\ cached \in [Plugins -> Implementations \cup {Null}]
  /\ active \in Seq(Calls)
  /\ pluginStates \in [Plugins -> States]
  /\ agenda \in Seq(AllTurns)
  /\ steps \in 0 .. MaxSteps

Depth == Len(active)
Op(k) == active[k].op

\* Interfaces come or go, never both at once.
Phases ==
  \/ \A k \in 1 .. Depth : Op(k) \in {"registered", "init"}
  \/ \A k \in 1 .. Depth : Op(k) \in {"deregistered", "fini"}

\* The order of a plugin's turns in one step.
Rank == [stage \in StageNames |->
          CASE stage \in {"load", "unload", "destroy"} -> 1
            [] stage \in {"create", "context"} -> 2
            [] OTHER -> 3]
StateIn == [stage \in StageNames |->
             CASE stage \in {"load", "create", "postLoad"} -> "PostLoad"
               [] stage = "unload" -> "Unload"
               [] OTHER -> "none"]

Takes(turns, stage, p) ==
  \E k \in 1 .. Len(turns) : turns[k].stage = stage /\ turns[k].plugin = p
InOrder(turns) ==
  \A j, k \in 1 .. Len(turns) : j < k /\ turns[j].plugin = turns[k].plugin =>
    Rank[turns[j].stage] < Rank[turns[k].stage]
Pending(stage, p) == Takes(agenda, stage, p)

\* A plugin has its turns in order, and its context first and last.
Sequenced ==
  /\ InOrder(agenda)
  /\ \A stage \in StageNames : \A p \in Plugins :
       Pending(stage, p) => pluginStates[p] = StateIn[stage]
  /\ \A p \in Plugins : /\ Pending("load", p) => Pending("create", p)
                        /\ Pending("destroy", p) => Pending("context", p)

\* The plugins with a context, and those with a PluginMain.
Loaded(p) ==
  IF pluginStates[p] = "none" THEN Pending("context", p) ELSE ~Pending("load", p)
Created(p) ==
  IF pluginStates[p] = "none" THEN Pending("destroy", p) ELSE ~Pending("create", p)
Living ==
  /\ \A p \in Plugins : Contains(contexts, p) <=> Loaded(p)
  /\ \A p \in Plugins : listeners[p] # <<>> => Created(p)
  /\ \A i \in interfaces : Loaded(Provider[i])

\* What counts as initialised or is cached is registered.
Backed ==
  /\ \A p \in Plugins : inited[p] => Has(p, "executor") /\ Available(p)
  /\ \A p \in Plugins : cached[p] # Null =>
       Has(p, "holder") /\ cached[p] \in Registered(Wants[p])

\* What the calls in progress are about is there.
Meant ==
  /\ \A k \in 1 .. Depth : Op(k) = "registered" => active[k].impl \in interfaces
  /\ \A k \in 1 .. Depth : Op(k) = "init" => Loaded(active[k].plugin)

\* Before an interface goes, everybody who uses it has still to be told, or is just
\* being finalised.
Told(k, p) ==
  /\ inited[p] /\ Face[active[k].impl] \in Needs[p] =>
       \/ <<p, "executor">> \in active[k].left
       \/ \E m \in k + 1 .. Depth : active[m] = FiniCall(p)
  /\ cached[p] = active[k].impl => <<p, "holder">> \in active[k].left
Leaving == \A k \in 1 .. Depth : Op(k) = "deregistered" => \A p \in Plugins : Told(k, p)

IInv == Typed /\ Phases /\ Sequenced /\ Living /\ Backed /\ Meant /\ Leaving

\* An executor that could be initialised and is not, and a call that tells it or takes
\* an interface it needs.
Missed(p) == Has(p, "executor") /\ Available(p) /\ ~inited[p]
ForExecutor(c, p) ==
  \/ c.op = "registered" /\ <<p, "executor">> \notin c.called
  \/ c.op = "deregistered" /\ Face[c.impl] \in Needs[p]
Destroying(p) == agenda # <<>> /\ Head(agenda) = [stage |-> "destroy", plugin |-> p]
Asked ==
  \A p \in Plugins : Missed(p) =>
    (\E k \in 1 .. Depth : ForExecutor(active[k], p)) \/ Destroying(p)

\* Why a fini function is called.
Finalised ==
  \A k \in 1 .. Depth : Op(k) = "fini" =>
    \/ k = 1 /\ Destroying(active[k].plugin)
    \/ /\ k - 1 \in 1 .. Depth /\ Op(k - 1) = "deregistered"
       /\ Face[active[k - 1].impl] \in Needs[active[k].plugin]
Served == Asked /\ Finalised

\* A holder that could cache a pointer and does not, and a call that gives it one or
\* takes the interface.
Unheld(p) == Has(p, "holder") /\ Registered(Wants[p]) # {} /\ cached[p] = Null
ForHolder(c, p) ==
  /\ c.op \in {"registered", "deregistered"} /\ Face[c.impl] = Wants[p]
  /\ c.op = "registered" => <<p, "holder">> \notin c.called
Answered == \A p \in Plugins : Unheld(p) => \E k \in 1 .. Depth : ForHolder(active[k], p)

\* No interface has two implementations, and an executor needs something.
Unique == \A i, j \in Implementations : Face[i] = Face[j] => i = j
Needy == \A p \in Plugins : Needs[p] # {}

\* Who could be served is served in the end.
Onward ==
  /\ Unique /\ Needy /\ Served => Served'
  /\ Unique /\ Answered => Answered'

-----------------------------------------------------------------------------
(* Sequences *)

LEMMA SeqFacts ==
  ASSUME NEW S, NEW s \in Seq(S)
  PROVE  /\ Len(s) \in Nat /\ DOMAIN s = 1 .. Len(s)
         /\ \A k \in 1 .. Len(s) : s[k] \in S
         /\ s = <<>> <=> Len(s) = 0
  OBVIOUS

LEMMA Appended ==
  ASSUME NEW S, NEW s \in Seq(S), NEW e \in S
  PROVE  /\ Append(s, e) \in Seq(S) /\ Len(Append(s, e)) = Len(s) + 1
         /\ \A k \in 1 .. Len(s) : Append(s, e)[k] = s[k]
         /\ Append(s, e)[Len(s) + 1] = e
  OBVIOUS

LEMMA Fronts ==
  ASSUME NEW S, NEW s \in Seq(S), s # <<>>
  PROVE  /\ Front(s) \in Seq(S) /\ Len(Front(s)) = Len(s) - 1 /\ Len(s) - 1 \in Nat
         /\ \A k \in 1 .. Len(s) - 1 : Front(s)[k] = s[k]
         /\ Last(s) = s[Len(s)] /\ Last(s) \in S /\ Len(s) \in 1 .. Len(s)
<1>1. Len(s) \in Nat /\ Len(s) # 0 /\ \A k \in 1 .. Len(s) - 1 : s[k] \in S
  BY SeqFacts
<1>2. /\ SubSeq(s, 1, Len(s) - 1) \in Seq(S) /\ Len(SubSeq(s, 1, Len(s) - 1)) = Len(s) - 1
      /\ \A k \in 1 .. Len(s) - 1 : SubSeq(s, 1, Len(s) - 1)[k] = s[k]
  <2>1. 1 \in Int /\ Len(s) - 1 \in Int
    BY <1>1
  <2>2. /\ SubSeq(s, 1, Len(s) - 1) \in Seq(S)
        /\ Len(SubSeq(s, 1, Len(s) - 1)) = IF 1 <= Len(s) - 1 THEN (Len(s) - 1) - 1 + 1 ELSE 0
        /\ \A k \in 1 .. (Len(s) - 1) - 1 + 1 : SubSeq(s, 1, Len(s) - 1)[k] = s[1 + k - 1]
    BY <1>1, <2>1, SubSeqProperties
  <2>3. (Len(s) - 1) - 1 + 1 = Len(s) - 1 /\ \A k \in 1 .. Len(s) - 1 : 1 + k - 1 = k
    BY <1>1
  <2>4. (IF 1 <= Len(s) - 1 THEN (Len(s) - 1) - 1 + 1 ELSE 0) = Len(s) - 1
    <3>1. \A n \in Nat : n # 0 => (IF 1 <= n - 1 THEN (n - 1) - 1 + 1 ELSE 0) = n - 1
      OBVIOUS
    <3> QED
      BY <1>1, <3>1
  <2> DEFINE b == SubSeq(s, 1, Len(s) - 1)
             m == Len(s) - 1
  <2>5. b \in Seq(S) /\ Len(b) = m
    BY <2>2, <2>4
  <2>6. \A k \in 1 .. m : b[k] = s[1 + k - 1]
    BY <2>2, <2>3
  <2>7. \A k \in 1 .. m : 1 + k - 1 = k
    BY <2>3
  <2> HIDE DEF b, m
  <2>8. \A k \in 1 .. m : b[k] = s[k]
    BY <2>6, <2>7
  <2> QED
    BY <2>5, <2>8 DEF b, m
<1>3. Len(s) \in 1 .. Len(s) /\ s[Len(s)] \in S
  BY <1>1
<1> QED
  BY <1>1, <1>2, <1>3 DEF Front, Last

\* Replacing the last element by one or two.
LEMMA Replaced ==
  ASSUME NEW S, NEW s \in Seq(S), s # <<>>, NEW e \in S, NEW f \in S
  PROVE  /\ Append(Front(s), e) \in Seq(S) /\ Len(Append(Front(s), e)) = Len(s)
         /\ \A k \in 1 .. Len(s) - 1 : Append(Front(s), e)[k] = s[k]
         /\ Append(Front(s), e)[Len(s)] = e
         /\ Front(s) \o <<e, f>> \in Seq(S) /\ Len(Front(s) \o <<e, f>>) = Len(s) + 1
         /\ \A k \in 1 .. Len(s) - 1 : (Front(s) \o <<e, f>>)[k] = s[k]
         /\ (Front(s) \o <<e, f>>)[Len(s)] = e
         /\ (Front(s) \o <<e, f>>)[Len(s) + 1] = f
<1> DEFINE r == Front(s)
           n == Len(s)
<1>1. r \in Seq(S) /\ Len(r) = n - 1 /\ n - 1 \in Nat /\ \A k \in 1 .. n - 1 : r[k] = s[k]
  BY Fronts
<1>2. n \in Nat
  BY SeqFacts
<1> HIDE DEF r, n
<1>3. <<e, f>> \in Seq(S) /\ Len(<<e, f>>) = 2 /\ <<e, f>>[1] = e /\ <<e, f>>[2] = f
  OBVIOUS
<1>4. /\ r \o <<e, f>> \in Seq(S) /\ Len(r \o <<e, f>>) = n + 1
      /\ \A k \in 1 .. n - 1 : (r \o <<e, f>>)[k] = r[k]
      /\ (r \o <<e, f>>)[n] = e /\ (r \o <<e, f>>)[n + 1] = f
  <2> DEFINE c == r \o <<e, f>>
  <2>1. c \in Seq(S) /\ Len(c) = (n - 1) + 2
    BY <1>1, <1>3, ConcatProperties
  <2>2. \A i \in 1 .. (n - 1) + 2 : c[i] = IF i <= n - 1 THEN r[i] ELSE <<e, f>>[i - (n - 1)]
    BY <1>1, <1>3, ConcatProperties
  <2>3. n - (n - 1) = 1 /\ (n + 1) - (n - 1) = 2 /\ (n - 1) + 2 = n + 1
    BY <1>2
  <2>4. n \in 1 .. n + 1 /\ n + 1 \in 1 .. n + 1 /\ ~(n <= n - 1) /\ ~(n + 1 <= n - 1)
    BY <1>1, <1>2
  <2> HIDE DEF c
  <2>5. c[n] = e /\ c[n + 1] = f
    BY <1>3, <2>2, <2>3, <2>4
  <2>6. \A k \in 1 .. n - 1 : k \in 1 .. n + 1 /\ k <= n - 1
    BY <1>2
  <2> QED
    BY <2>1, <2>2, <2>3, <2>5, <2>6 DEF c
<1>5. /\ Append(r, e) \in Seq(S) /\ Len(Append(r, e)) = n
      /\ \A k \in 1 .. n - 1 : Append(r, e)[k] = r[k]
      /\ Append(r, e)[n] = e
  BY <1>1, <1>2
<1> QED
  BY <1>1, <1>4, <1>5 DEF r, n

LEMMA Tails ==
  ASSUME NEW S, NEW s \in Seq(S), s # <<>>
  PROVE  /\ Tail(s) \in Seq(S) /\ Len(Tail(s)) = Len(s) - 1 /\ Len(s) - 1 \in Nat
         /\ \A k \in 1 .. Len(s) - 1 : Tail(s)[k] = s[k + 1]
         /\ Head(s) = s[1] /\ Head(s) \in S /\ 1 \in 1 .. Len(s)
  OBVIOUS

\* Removing an element of a sequence without repetitions.
LEMMA Removed ==
  ASSUME NEW S, NEW s \in Seq(S), IsInjective(s), NEW x, Contains(s, x)
  PROVE  /\ RemoveAt(s, Position(s, x)) \in Seq(S)
         /\ IsInjective(RemoveAt(s, Position(s, x)))
         /\ \A y : Contains(RemoveAt(s, Position(s, x)), y) <=> Contains(s, y) /\ y # x
<1> DEFINE n == Len(s)
           q == Position(s, x)
           r == RemoveAt(s, q)
<1>1. n \in Nat /\ DOMAIN s = 1 .. n /\ \A k \in 1 .. n : s[k] \in S
  BY SeqFacts
<1>2. q \in 1 .. n /\ s[q] = x
  BY <1>1 DEF Contains, Position
<1> HIDE DEF n, q
<1>3. \A j, k \in 1 .. n : s[j] = s[k] => j = k
  BY <1>1 DEF IsInjective
<1>4. /\ SubSeq(s, 1, q - 1) \in Seq(S) /\ Len(SubSeq(s, 1, q - 1)) = q - 1
      /\ \A k \in 1 .. q - 1 : SubSeq(s, 1, q - 1)[k] = s[k]
  BY <1>1, <1>2 DEF n
<1>5. /\ SubSeq(s, q + 1, n) \in Seq(S) /\ Len(SubSeq(s, q + 1, n)) = n - q
      /\ \A k \in 1 .. n - q : SubSeq(s, q + 1, n)[k] = s[q + k]
  <2>1. \A k \in q + 1 .. n : s[k] \in S
    BY <1>1, <1>2
  <2>2. q + 1 \in Int /\ n \in Int
    BY <1>1, <1>2
  <2>3. /\ SubSeq(s, q + 1, n) \in Seq(S)
        /\ Len(SubSeq(s, q + 1, n)) = IF q + 1 <= n THEN n - (q + 1) + 1 ELSE 0
        /\ \A k \in 1 .. n - (q + 1) + 1 : SubSeq(s, q + 1, n)[k] = s[(q + 1) + k - 1]
    BY <2>1, <2>2, SubSeqProperties
  <2>4. n - (q + 1) + 1 = n - q /\ \A k \in 1 .. n - q : (q + 1) + k - 1 = q + k
    BY <1>1, <1>2
  <2>5. (IF q + 1 <= n THEN n - (q + 1) + 1 ELSE 0) = n - q
    BY <1>1, <1>2
  <2> QED
    BY <2>3, <2>4, <2>5
<1>6. /\ r \in Seq(S) /\ Len(r) = n - 1
      /\ \A k \in 1 .. n - 1 : r[k] = IF k < q THEN s[k] ELSE s[k + 1]
  <2>1. r = SubSeq(s, 1, q - 1) \o SubSeq(s, q + 1, n)
    BY DEF RemoveAt, n
  <2> DEFINE a == SubSeq(s, 1, q - 1)
             b == SubSeq(s, q + 1, n)
  <2>2. /\ a \in Seq(S) /\ Len(a) = q - 1 /\ \A k \in 1 .. q - 1 : a[k] = s[k]
        /\ b \in Seq(S) /\ Len(b) = n - q /\ \A k \in 1 .. n - q : b[k] = s[q + k]
    BY <1>4, <1>5
  <2>3. r = a \o b
    BY <2>1
  <2> HIDE DEF r, a, b
  <2>4. /\ r \in Seq(S) /\ Len(r) = (q - 1) + (n - q)
        /\ \A k \in 1 .. (q - 1) + (n - q) : r[k] = IF k <= q - 1 THEN a[k] ELSE b[k - (q - 1)]
    BY <2>2, <2>3, ConcatProperties
  <2>5. (q - 1) + (n - q) = n - 1
    BY <1>1, <1>2
  <2>6. ASSUME NEW k \in 1 .. n - 1 PROVE r[k] = IF k < q THEN s[k] ELSE s[k + 1]
    <3>1. CASE k < q
      <4>1. k \in 1 .. q - 1 /\ k <= q - 1
        BY <1>1, <1>2, <3>1
      <4> QED
        BY <2>2, <2>4, <2>5, <2>6, <3>1, <4>1
    <3>2. CASE ~(k < q)
      <4>1. k - (q - 1) \in 1 .. n - q /\ ~(k <= q - 1) /\ q + (k - (q - 1)) = k + 1
        BY <1>1, <1>2, <3>2
      <4> QED
        BY <2>2, <2>4, <2>5, <2>6, <3>2, <4>1
    <3> QED
      BY <3>1, <3>2
  <2> QED
    BY <2>4, <2>5, <2>6
<1> HIDE DEF r
<1>7. DOMAIN r = 1 .. n - 1
  BY <1>6, SeqFacts
<1>8. IsInjective(r)
  <2> SUFFICES ASSUME NEW j \in 1 .. n - 1, NEW k \in 1 .. n - 1, r[j] = r[k]
               PROVE  j = k
    BY <1>7 DEF IsInjective
  <2> QED
    BY <1>1, <1>2, <1>3, <1>6
<1>9. ASSUME NEW y PROVE Contains(r, y) <=> Contains(s, y) /\ y # x
  <2>1. ASSUME NEW k \in 1 .. n - 1, r[k] = y PROVE Contains(s, y) /\ y # x
    <3>1. CASE k < q
      <4>1. k \in 1 .. n /\ s[k] = y /\ k # q
        BY <1>1, <1>2, <1>6, <2>1, <3>1
      <4> QED
        BY <1>2, <1>3, <4>1 DEF Contains, n
    <3>2. CASE ~(k < q)
      <4>1. k + 1 \in 1 .. n /\ s[k + 1] = y /\ k + 1 # q
        BY <1>1, <1>2, <1>6, <2>1, <3>2
      <4> QED
        BY <1>2, <1>3, <4>1 DEF Contains, n
    <3> QED
      BY <3>1, <3>2
  <2>2. ASSUME NEW k \in 1 .. n, s[k] = y, y # x PROVE Contains(r, y)
    <3>1. k # q
      BY <1>2, <2>2
    <3>2. CASE k < q
      <4>1. k \in 1 .. n - 1 /\ r[k] = y
        BY <1>1, <1>2, <1>6, <2>2, <3>2
      <4> QED
        BY <1>6, <4>1 DEF Contains
    <3>3. CASE ~(k < q)
      <4>1. k - 1 \in 1 .. n - 1 /\ ~(k - 1 < q) /\ (k - 1) + 1 = k
        BY <1>1, <1>2, <2>2, <3>1, <3>3
      <4>2. r[k - 1] = y
        BY <1>6, <2>2, <4>1
      <4> QED
        BY <1>6, <4>1, <4>2 DEF Contains
    <3> QED
      BY <3>2, <3>3
  <2> QED
    BY <1>6, <2>1, <2>2 DEF Contains, n
<1> QED
  BY <1>6, <1>8, <1>9 DEF r, q

-----------------------------------------------------------------------------
(* Calls in progress *)

Below == \A k \in 1 .. Depth - 1 : active'[k] = active[k]
Pushes(c) ==
  /\ active' \in Seq(Calls) /\ Depth' = Depth + 1
  /\ \A k \in 1 .. Depth : active'[k] = active[k]
  /\ active'[Depth + 1] = c
Pops == active' \in Seq(Calls) /\ Depth' = Depth - 1 /\ Below
Swaps(c) == active' \in Seq(Calls) /\ Depth' = Depth /\ Below /\ active'[Depth] = c
SwapsPushes(c, d) ==
  /\ active' \in Seq(Calls) /\ Depth' = Depth + 1 /\ Below
  /\ active'[Depth] = c /\ active'[Depth + 1] = d

LEMMA Stacks ==
  ASSUME Typed
  PROVE  /\ Depth \in Nat /\ (Busy <=> Depth # 0)
         /\ \A k \in 1 .. Depth : active[k] \in Calls
         /\ Busy => Innermost = active[Depth] /\ Innermost \in Calls /\ Depth \in 1 .. Depth
         /\ \A c \in Calls : Call(c) => Pushes(c)
         /\ Busy /\ Return => Pops
         /\ \A c, d \in Calls : /\ Busy /\ active' = Append(Front(active), c) => Swaps(c)
                                /\ Busy /\ active' = Front(active) \o <<c, d>> => SwapsPushes(c, d)
<1>1. active \in Seq(Calls)
  BY DEF Typed
<1>2. Depth \in Nat /\ (Busy <=> Depth # 0) /\ \A k \in 1 .. Depth : active[k] \in Calls
  BY <1>1, SeqFacts DEF Busy, Depth
<1>3. Busy => Innermost = active[Depth] /\ Innermost \in Calls /\ Depth \in 1 .. Depth
  BY <1>1, Fronts DEF Busy, Innermost, Depth
<1>4. ASSUME NEW c \in Calls, Call(c) PROVE Pushes(c)
  BY <1>1, <1>4, Appended DEF Call, Pushes, Depth
<1>5. ASSUME Busy, Return PROVE Pops
  BY <1>1, <1>5, Fronts DEF Busy, Return, Pops, Below, Depth
<1>6. ASSUME NEW c \in Calls, NEW d \in Calls, Busy
      PROVE  /\ active' = Append(Front(active), c) => Swaps(c)
             /\ active' = Front(active) \o <<c, d>> => SwapsPushes(c, d)
  <2>1. active # <<>>
    BY <1>6 DEF Busy
  <2> DEFINE one == Append(Front(active), c)
             two == Front(active) \o <<c, d>>
             n == Len(active)
  <2>2. one \in Seq(Calls) /\ Len(one) = n /\ (\A k \in 1 .. n - 1 : one[k] = active[k]) /\ one[n] = c
    <3> DEFINE r == Front(active)
    <3>1. r \in Seq(Calls) /\ Len(r) = n - 1 /\ n \in Nat /\ \A k \in 1 .. n - 1 : r[k] = active[k]
      BY <1>1, <2>1, Fronts, SeqFacts
    <3> HIDE DEF r, n
    <3>2. /\ Append(r, c) \in Seq(Calls) /\ Len(Append(r, c)) = (n - 1) + 1
          /\ \A k \in 1 .. n - 1 : Append(r, c)[k] = r[k]
          /\ Append(r, c)[(n - 1) + 1] = c
      BY <3>1, Appended
    <3>3. (n - 1) + 1 = n
      BY <3>1
    <3>4. one = Append(r, c)
      BY DEF r
    <3> HIDE DEF one
    <3> QED
      BY <3>1, <3>2, <3>3, <3>4
  <2>3. /\ two \in Seq(Calls) /\ Len(two) = n + 1 /\ \A k \in 1 .. n - 1 : two[k] = active[k]
        /\ two[n] = c /\ two[n + 1] = d
    BY <1>1, <2>1, Replaced
  <2> HIDE DEF one, two, n
  <2>4. ASSUME active' = one PROVE Swaps(c)
    BY <2>2, <2>4 DEF Swaps, Below, Depth, n
  <2>5. ASSUME active' = two PROVE SwapsPushes(c, d)
    BY <2>3, <2>5 DEF SwapsPushes, Below, Depth, n
  <2> QED
    BY <2>4, <2>5 DEF one, two
<1> QED
  BY <1>2, <1>3, <1>4, <1>5, <1>6

LEMMA CallTypes ==
  /\ \A c \in Calls : /\ c.op \in {"registered", "deregistered", "init", "fini"}
                      /\ c.op = "registered" => c.impl \in Implementations /\ c.called \in SUBSET Listeners
                      /\ c.op = "deregistered" => c.impl \in Implementations /\ c.left \in SUBSET Listeners
                      /\ c.op \in {"init", "fini"} => c.plugin \in Plugins
  /\ \A i \in Implementations : \A S \in SUBSET Listeners :
       /\ [op |-> "registered", impl |-> i, called |-> S] \in Calls
       /\ [op |-> "deregistered", impl |-> i, left |-> S] \in Calls
  /\ \A p \in Plugins : InitCall(p) \in Calls /\ FiniCall(p) \in Calls
<1>1. \A i \in Implementations : \A S \in SUBSET Listeners :
        /\ [op |-> "registered", impl |-> i, called |-> S] \in Calls
        /\ [op |-> "deregistered", impl |-> i, left |-> S] \in Calls
  BY DEF Calls
<1>2. \A p \in Plugins : InitCall(p) \in Calls /\ FiniCall(p) \in Calls
  BY DEF Calls, InitCall, FiniCall
<1>3. \A c \in Calls : /\ c.op \in {"registered", "deregistered", "init", "fini"}
                       /\ c.op = "registered" => c.impl \in Implementations /\ c.called \in SUBSET Listeners
                       /\ c.op = "deregistered" => c.impl \in Implementations /\ c.left \in SUBSET Listeners
                       /\ c.op \in {"init", "fini"} => c.plugin \in Plugins
  BY DEF Calls
<1> QED
  BY <1>1, <1>2, <1>3

\* Taking a listener.
LEMMA TakenTypes ==
  ASSUME Typed, Busy, NEW l \in Listeners
  PROVE  /\ Innermost.op = "registered" =>
              /\ CalledOne(l) \in Calls /\ CalledOne(l).op = "registered"
              /\ CalledOne(l).impl = Innermost.impl
              /\ CalledOne(l).called = Innermost.called \cup {l}
         /\ Innermost.op = "deregistered" =>
              /\ LeftOne(l) \in Calls /\ LeftOne(l).op = "deregistered"
              /\ LeftOne(l).impl = Innermost.impl
              /\ LeftOne(l).left = Innermost.left \ {l}
<1>1. Innermost \in Calls
  BY Stacks
<1>2. CASE Innermost.op = "registered"
  <2>1. Innermost \in [op : {"registered"}, impl : Implementations, called : SUBSET Listeners]
    BY <1>1, <1>2 DEF Calls
  <2>2. CalledOne(l) \in [op : {"registered"}, impl : Implementations, called : SUBSET Listeners]
    BY <2>1 DEF CalledOne
  <2> QED
    BY <1>2, <2>1, <2>2 DEF CalledOne, Calls
<1>3. CASE Innermost.op = "deregistered"
  <2>1. Innermost \in [op : {"deregistered"}, impl : Implementations, left : SUBSET Listeners]
    BY <1>1, <1>3 DEF Calls
  <2>2. LeftOne(l) \in [op : {"deregistered"}, impl : Implementations, left : SUBSET Listeners]
    BY <2>1 DEF LeftOne
  <2> QED
    BY <1>3, <2>1, <2>2 DEF LeftOne, Calls
<1> QED
  BY <1>2, <1>3

-----------------------------------------------------------------------------
(* The turns of a step *)

LEMMA Ranks ==
  /\ Rank \in [StageNames -> 1 .. 3] /\ StateIn \in [StageNames -> States]
  /\ Rank["load"] = 1 /\ Rank["unload"] = 1 /\ Rank["destroy"] = 1
  /\ Rank["create"] = 2 /\ Rank["context"] = 2 /\ Rank["postLoad"] = 3
  /\ StateIn["load"] = "PostLoad" /\ StateIn["create"] = "PostLoad"
  /\ StateIn["postLoad"] = "PostLoad" /\ StateIn["unload"] = "Unload"
  /\ StateIn["destroy"] = "none" /\ StateIn["context"] = "none"
  /\ {"load", "create", "postLoad", "unload", "destroy", "context"} = StageNames
  BY DEF Rank, StateIn, StageNames, States

LEMMA TurnEnded ==
  ASSUME Typed, Sequenced, agenda # <<>>, TurnEnds, UNCHANGED pluginStates
  PROVE  /\ agenda' \in Seq(AllTurns) /\ Sequenced'
         /\ Head(agenda) \in AllTurns /\ Plugin \in Plugins
         /\ \A stage \in StageNames : \A p \in Plugins :
              Pending(stage, p)' <=> Pending(stage, p) /\ ~(stage = Head(agenda).stage /\ p = Plugin)
<1> DEFINE n == Len(agenda)
           h == Head(agenda)
<1>1. /\ agenda' \in Seq(AllTurns) /\ Len(agenda') = n - 1 /\ n - 1 \in Nat
      /\ \A k \in 1 .. n - 1 : agenda'[k] = agenda[k + 1]
      /\ h = agenda[1] /\ h \in AllTurns /\ 1 \in 1 .. n
  BY Tails DEF Typed, TurnEnds
<1>2. n \in Nat /\ \A k \in 1 .. n : agenda[k] \in AllTurns
  BY SeqFacts DEF Typed
<1>3. h.stage \in StageNames /\ h.plugin \in Plugins /\ Plugin = h.plugin
  BY <1>1 DEF AllTurns, Plugin
<1> HIDE DEF n, h
<1>4. \A j, k \in 1 .. n : j < k /\ agenda[j].plugin = agenda[k].plugin =>
        Rank[agenda[j].stage] < Rank[agenda[k].stage]
  BY DEF Sequenced, InOrder, n
<1>5. ASSUME NEW stage \in StageNames, NEW p \in Plugins
      PROVE  Pending(stage, p)' <=> Pending(stage, p) /\ ~(stage = h.stage /\ p = Plugin)
  <2>1. ASSUME NEW k \in 1 .. n - 1, agenda'[k].stage = stage, agenda'[k].plugin = p
        PROVE  Pending(stage, p) /\ ~(stage = h.stage /\ p = Plugin)
    <3>1. k + 1 \in 1 .. n /\ 1 < k + 1 /\ agenda'[k] = agenda[k + 1]
      BY <1>1, <1>2
    <3>2. Pending(stage, p)
      BY <2>1, <3>1 DEF Pending, Takes, n
    <3>3. Rank[stage] \in 1 .. 3 /\ ~(Rank[stage] < Rank[stage])
      BY Ranks
    <3> QED
      BY <1>1, <1>3, <1>4, <2>1, <3>1, <3>2, <3>3
  <2>2. ASSUME NEW k \in 1 .. n, agenda[k].stage = stage, agenda[k].plugin = p,
               ~(stage = h.stage /\ p = Plugin)
        PROVE  Pending(stage, p)'
    <3>1. k # 1
      BY <1>1, <1>3, <2>2
    <3>2. k - 1 \in 1 .. n - 1 /\ (k - 1) + 1 = k
      BY <1>2, <3>1
    <3>3. agenda'[k - 1] = agenda[k]
      BY <1>1, <3>2
    <3> QED
      BY <1>1, <2>2, <3>2, <3>3 DEF Pending, Takes
  <2> QED
    BY <1>1, <2>1, <2>2 DEF Pending, Takes, n
<1>6. InOrder(agenda)'
  <2> SUFFICES ASSUME NEW j \in 1 .. n - 1, NEW k \in 1 .. n - 1, j < k,
                      agenda'[j].plugin = agenda'[k].plugin
               PROVE  Rank[agenda'[j].stage] < Rank[agenda'[k].stage]
    BY <1>1 DEF InOrder
  <2>1. j + 1 \in 1 .. n /\ k + 1 \in 1 .. n /\ j + 1 < k + 1
    BY <1>2
  <2> QED
    BY <1>1, <1>4, <2>1
<1>7. ASSUME NEW p \in Plugins, NEW first \in StageNames, NEW second \in StageNames,
             Rank[first] < Rank[second], Pending(first, p) => Pending(second, p), Pending(first, p)'
      PROVE  Pending(second, p)'
  <2>1. Pending(first, p) /\ Pending(second, p)
    BY <1>5, <1>7
  <2>2. ASSUME second = h.stage, p = Plugin PROVE FALSE
    <3>1. PICK k \in 1 .. n : agenda[k].stage = first /\ agenda[k].plugin = p
      BY <2>1 DEF Pending, Takes, n
    <3>2. Rank[first] \in 1 .. 3 /\ Rank[second] \in 1 .. 3
      BY Ranks
    <3>3. k = 1 \/ 1 < k
      BY <1>2
    <3>4. k # 1
      BY <1>1, <1>7, <2>2, <3>1, <3>2
    <3>5. Rank[second] < Rank[first]
      BY <1>1, <1>3, <1>4, <2>2, <3>1, <3>3, <3>4
    <3> QED
      BY <1>7, <3>2, <3>5
  <2> QED
    BY <1>5, <2>1, <2>2
<1>8. Sequenced'
  <2>1. \A stage \in StageNames : \A p \in Plugins :
          Pending(stage, p)' => pluginStates'[p] = StateIn[stage]
    BY <1>5 DEF Sequenced
  <2>2. Rank["load"] < Rank["create"] /\ Rank["destroy"] < Rank["context"]
    BY Ranks
  <2>3. \A p \in Plugins : /\ Pending("load", p)' => Pending("create", p)'
                           /\ Pending("destroy", p)' => Pending("context", p)'
    BY <1>7, <2>2, Ranks DEF Sequenced
  <2> QED
    BY <1>6, <2>1, <2>3 DEF Sequenced
<1> QED
  BY <1>1, <1>3, <1>5, <1>8 DEF h

\* The plugin whose turn it is.
LEMMA Underway ==
  ASSUME Typed, Sequenced, NEW stage \in StageNames, Turn(stage), NEW q, q = Plugin
  PROVE  /\ q \in Plugins /\ Pending(stage, q) /\ pluginStates[q] = StateIn[stage]
         /\ \A st \in StageNames : Pending(st, q) => Rank[stage] <= Rank[st]
<1>1. agenda # <<>> /\ Head(agenda).stage = stage /\ q = Head(agenda).plugin
  BY DEF Turn, Plugin
<1>2. q \in Plugins
  <2>1. Head(agenda) \in AllTurns
    BY <1>1, Tails DEF Typed
  <2> QED
    BY <1>1, <2>1 DEF AllTurns
<1>3. Pending(stage, q)
  <2>1. agenda \in Seq(AllTurns)
    BY DEF Typed
  <2>2. Head(agenda) = agenda[1] /\ 1 \in 1 .. Len(agenda)
    BY <1>1, <2>1, Tails
  <2> QED
    BY <1>1, <2>2 DEF Pending, Takes
<1>4. \A st \in StageNames : Pending(st, q) => Rank[stage] <= Rank[st]
  <2> SUFFICES ASSUME NEW st \in StageNames, NEW k \in 1 .. Len(agenda),
                      agenda[k].stage = st, agenda[k].plugin = q
               PROVE  Rank[stage] <= Rank[st]
    BY DEF Pending, Takes
  <2>1. agenda \in Seq(AllTurns)
    BY DEF Typed
  <2>2. Head(agenda) = agenda[1] /\ 1 \in 1 .. Len(agenda) /\ Len(agenda) \in Nat
    BY <1>1, <2>1, Tails, SeqFacts
  <2>3. Rank[stage] \in 1 .. 3 /\ Rank[st] \in 1 .. 3
    BY Ranks
  <2>4. k = 1 \/ 1 < k
    BY <2>2
  <2>5. k = 1 => st = stage
    BY <1>1, <2>2
  <2>6. 1 < k => Rank[stage] < Rank[st]
    BY <1>1, <2>2 DEF Sequenced, InOrder
  <2> QED
    BY <2>3, <2>4, <2>5, <2>6
<1>5. pluginStates[q] = StateIn[stage]
  BY <1>2, <1>3 DEF Sequenced
<1> QED
  BY <1>2, <1>3, <1>4, <1>5

\* Which plugins have a context and a PluginMain before and after a turn.
LEMMA TurnLives ==
  ASSUME Typed, Sequenced, NEW stage \in StageNames, Turn(stage), TurnEnds, UNCHANGED pluginStates,
         NEW q, q = Plugin
  PROVE  /\ \A p \in Plugins \ {q} : (Loaded(p)' <=> Loaded(p)) /\ (Created(p)' <=> Created(p))
         /\ stage = "load" => ~Created(q) /\ ~Created(q)' /\ ~Loaded(q) /\ Loaded(q)'
         /\ stage # "load" => Loaded(q)
         /\ stage \notin {"load", "context"} => Loaded(q)'
         /\ stage = "create" => ~Created(q) /\ Created(q)'
         /\ stage \in {"postLoad", "unload"} => Created(q) /\ Created(q)'
         /\ stage = "destroy" => ~Created(q)'
         /\ stage = "context" => ~Created(q) /\ ~Loaded(q)' /\ ~Created(q)'
<1>1. /\ agenda # <<>> /\ Head(agenda).stage = stage /\ q = Head(agenda).plugin
      /\ pluginStates' = pluginStates
  BY DEF Turn, Plugin
<1>2. /\ q \in Plugins
      /\ \A st \in StageNames : \A p \in Plugins :
           Pending(st, p)' <=> Pending(st, p) /\ ~(st = stage /\ p = q)
  BY <1>1, TurnEnded
<1>3. /\ Pending(stage, q) /\ pluginStates[q] = StateIn[stage]
      /\ \A st \in StageNames : Pending(st, q) => Rank[stage] <= Rank[st]
  BY Underway
<1>6. \A p \in Plugins \ {q} : (Loaded(p)' <=> Loaded(p)) /\ (Created(p)' <=> Created(p))
  BY <1>1, <1>2, Ranks DEF Loaded, Created
<1> DEFINE pend(st) == Pending(st, q)
           pend2(st) == Pending(st, q)'
<1>7. \A st \in StageNames : pend2(st) <=> pend(st) /\ st # stage
  BY <1>2
<1>8. /\ Loaded(q) <=> IF StateIn[stage] = "none" THEN pend("context") ELSE ~pend("load")
      /\ Loaded(q)' <=> IF StateIn[stage] = "none" THEN pend2("context") ELSE ~pend2("load")
      /\ Created(q) <=> IF StateIn[stage] = "none" THEN pend("destroy") ELSE ~pend("create")
      /\ Created(q)' <=> IF StateIn[stage] = "none" THEN pend2("destroy") ELSE ~pend2("create")
  BY <1>1, <1>3 DEF Loaded, Created
<1>9. /\ pend("load") => pend("create")
      /\ pend("destroy") => pend("context")
      /\ \A st \in StageNames : pend(st) => Rank[stage] <= Rank[st]
      /\ pend(stage)
      /\ \A st \in StageNames : pend(st) => StateIn[st] = StateIn[stage]
  BY <1>2, <1>3 DEF Sequenced
<1> HIDE DEF pend, pend2
<1>10. CASE stage = "load"
  BY <1>6, <1>7, <1>8, <1>9, <1>10, Ranks
<1>11. CASE stage = "create"
  BY <1>6, <1>7, <1>8, <1>9, <1>11, Ranks
<1>12. CASE stage = "postLoad"
  BY <1>6, <1>7, <1>8, <1>9, <1>12, Ranks
<1>13. CASE stage = "unload"
  BY <1>6, <1>7, <1>8, <1>9, <1>13, Ranks
<1>14. CASE stage = "destroy"
  BY <1>6, <1>7, <1>8, <1>9, <1>14, Ranks
<1>15. CASE stage = "context"
  BY <1>6, <1>7, <1>8, <1>9, <1>15, Ranks
<1> QED
  BY <1>10, <1>11, <1>12, <1>13, <1>14, <1>15, Ranks

\* A list of plugins without repetitions, and the turns of one stage for it.
LEMMA NamesListed ==
  ASSUME Typed, NEW state, NEW names \in Lists(state)
  PROVE  /\ names \in Seq(Plugins) /\ IsInjective(names)
         /\ \A p : Contains(names, p) => p \in Plugins /\ pluginStates[p] = state
<1>1. PICK n \in 1 .. Cardinality(Plugins) :
        names \in [1 .. n -> {p \in Plugins : pluginStates[p] = state}]
  BY DEF Lists
<1>2. IsInjective(names)
  BY DEF Lists
<1>3. Cardinality(Plugins) \in Nat
  BY PluginAssumption, FS_CardinalityType
<1>4. n \in Nat
  BY <1>1, <1>3
<1>5. names \in Seq({p \in Plugins : pluginStates[p] = state}) /\ names \in Seq(Plugins) /\ Len(names) = n
  BY <1>1, <1>4
<1>6. \A k \in 1 .. Len(names) : names[k] \in Plugins /\ pluginStates[names[k]] = state
  BY <1>1, <1>5
<1> QED
  BY <1>2, <1>5, <1>6 DEF Contains

LEMMA ReverseListed ==
  ASSUME NEW names \in Seq(Plugins), IsInjective(names)
  PROVE  /\ Reverse(names) \in Seq(Plugins) /\ IsInjective(Reverse(names))
         /\ \A p : Contains(Reverse(names), p) <=> Contains(names, p)
<1> DEFINE n == Len(names)
           r == Reverse(names)
<1>1. n \in Nat /\ DOMAIN names = 1 .. n /\ \A k \in 1 .. n : names[k] \in Plugins
  BY SeqFacts
<1>2. r = [k \in 1 .. n |-> names[(n - k) + 1]]
  BY DEF Reverse
<1> HIDE DEF n, r
<1>3. \A k \in 1 .. n : (n - k) + 1 \in 1 .. n /\ (n - ((n - k) + 1)) + 1 = k
  BY <1>1
<1>4. r \in Seq(Plugins) /\ Len(r) = n /\ DOMAIN r = 1 .. n
  BY <1>1, <1>2, <1>3
<1>5. \A k \in 1 .. n : r[k] = names[(n - k) + 1] /\ names[k] = r[(n - k) + 1]
  BY <1>1, <1>2, <1>3
<1>6. IsInjective(r)
  <2> SUFFICES ASSUME NEW j \in 1 .. n, NEW k \in 1 .. n, r[j] = r[k] PROVE j = k
    BY <1>4 DEF IsInjective
  <2>1. (n - j) + 1 = (n - k) + 1
    BY <1>1, <1>3, <1>5 DEF IsInjective
  <2> QED
    BY <1>1, <2>1
<1>7. \A p : Contains(r, p) <=> Contains(names, p)
  BY <1>1, <1>3, <1>4, <1>5 DEF Contains, n
<1> QED
  BY <1>4, <1>6, <1>7 DEF r

LEMMA TurnsListed ==
  ASSUME NEW names \in Seq(Plugins), IsInjective(names), NEW stage \in StageNames
  PROVE  /\ Turns(stage, names) \in Seq(AllTurns) /\ InOrder(Turns(stage, names))
         /\ \A st, p : Takes(Turns(stage, names), st, p) <=> st = stage /\ Contains(names, p)
<1> DEFINE n == Len(names)
           t == Turns(stage, names)
<1>1. n \in Nat /\ DOMAIN names = 1 .. n /\ \A k \in 1 .. n : names[k] \in Plugins
  BY SeqFacts
<1>2. t = [k \in 1 .. n |-> [stage |-> stage, plugin |-> names[k]]]
  BY DEF Turns
<1> HIDE DEF n, t
<1>3. t \in Seq(AllTurns) /\ Len(t) = n
  BY <1>1, <1>2 DEF AllTurns
<1>4. \A k \in 1 .. n : t[k].stage = stage /\ t[k].plugin = names[k]
  BY <1>1, <1>2
<1>5. InOrder(t)
  <2> SUFFICES ASSUME NEW j \in 1 .. n, NEW k \in 1 .. n, j < k, t[j].plugin = t[k].plugin
               PROVE  FALSE
    BY <1>3 DEF InOrder
  <2>1. j = k
    BY <1>1, <1>4 DEF IsInjective
  <2> QED
    BY <1>1, <2>1
<1>6. \A st, p : Takes(t, st, p) <=> st = stage /\ Contains(names, p)
  BY <1>3, <1>4 DEF Takes, Contains, n
<1> QED
  BY <1>3, <1>5, <1>6 DEF t

LEMMA TurnsJoined ==
  ASSUME NEW s \in Seq(AllTurns), NEW t \in Seq(AllTurns), InOrder(s), InOrder(t),
         \A j \in 1 .. Len(s) : \A k \in 1 .. Len(t) : Rank[s[j].stage] < Rank[t[k].stage]
  PROVE  /\ s \o t \in Seq(AllTurns) /\ InOrder(s \o t)
         /\ \A st, p : Takes(s \o t, st, p) <=> Takes(s, st, p) \/ Takes(t, st, p)
<1> DEFINE m == Len(s)
           n == Len(t)
           c == s \o t
<1>1. m \in Nat /\ n \in Nat
  BY SeqFacts
<1>2. /\ c \in Seq(AllTurns) /\ Len(c) = m + n
      /\ \A k \in 1 .. m + n : c[k] = IF k <= m THEN s[k] ELSE t[k - m]
  BY ConcatProperties
<1> HIDE DEF m, n, c
<1>3. /\ \A k \in 1 .. m : k \in 1 .. m + n /\ c[k] = s[k]
      /\ \A k \in 1 .. n : m + k \in 1 .. m + n /\ c[m + k] = t[k]
  <2>1. \A k \in 1 .. m : k \in 1 .. m + n /\ k <= m
    BY <1>1
  <2>2. \A k \in 1 .. n : m + k \in 1 .. m + n /\ ~(m + k <= m) /\ (m + k) - m = k
    BY <1>1
  <2> QED
    BY <1>2, <2>1, <2>2
<1>4. ASSUME NEW k \in 1 .. m + n
      PROVE  (k \in 1 .. m /\ c[k] = s[k]) \/ (~(k \in 1 .. m) /\ k - m \in 1 .. n /\ c[k] = t[k - m])
  <2>1. k \in 1 .. m \/ (k - m \in 1 .. n /\ ~(k <= m) /\ ~(k \in 1 .. m))
    BY <1>1
  <2>2. k \in 1 .. m => k <= m
    BY <1>1
  <2> QED
    BY <1>2, <2>1, <2>2
<1>5. InOrder(c)
  <2> SUFFICES ASSUME NEW j \in 1 .. m + n, NEW k \in 1 .. m + n, j < k, c[j].plugin = c[k].plugin
               PROVE  Rank[c[j].stage] < Rank[c[k].stage]
    BY <1>2 DEF InOrder
  <2>1. CASE k \in 1 .. m
    <3>1. j \in 1 .. m
      BY <1>1, <2>1
    <3> QED
      BY <1>4, <2>1, <3>1 DEF InOrder, m
  <2>2. CASE j \in 1 .. m /\ ~(k \in 1 .. m)
    BY <1>4, <2>2 DEF m, n
  <2>3. CASE ~(j \in 1 .. m) /\ ~(k \in 1 .. m)
    <3>1. j - m < k - m
      BY <1>1
    <3> QED
      BY <1>4, <2>3, <3>1 DEF InOrder, n
  <2> QED
    BY <2>1, <2>2, <2>3
<1>6. \A st, p : Takes(c, st, p) <=> Takes(s, st, p) \/ Takes(t, st, p)
  <2>1. ASSUME NEW st, NEW p, Takes(c, st, p) PROVE Takes(s, st, p) \/ Takes(t, st, p)
    <3>1. PICK k \in 1 .. m + n : c[k].stage = st /\ c[k].plugin = p
      BY <1>2, <2>1 DEF Takes
    <3> QED
      BY <1>4, <3>1 DEF Takes, m, n
  <2>2. ASSUME NEW st, NEW p, Takes(s, st, p) \/ Takes(t, st, p) PROVE Takes(c, st, p)
    BY <1>2, <1>3, <2>2 DEF Takes, m, n
  <2> QED
    BY <2>1, <2>2
<1> QED
  BY <1>2, <1>5, <1>6 DEF c

\* A step of the manager gives out its turns, and changes nobody's life yet.
Starts ==
  /\ Idle /\ UNCHANGED contextVars
  /\ agenda' \in Seq(AllTurns) /\ pluginStates' \in [Plugins -> States] /\ steps' \in 0 .. MaxSteps
  /\ Sequenced'
  /\ \A p \in Plugins : (Loaded(p)' <=> Loaded(p)) /\ (Created(p)' <=> Created(p))

LEMMA RunStarts ==
  ASSUME Typed, NEW state \in States, NEW before \in States, NEW names \in Lists(before),
         NEW turns \in Seq(AllTurns), Run(turns), Enter(names, state), InOrder(turns),
         \A stage \in StageNames : \A p : Takes(turns, stage, p) =>
           Contains(names, p) /\ StateIn[stage] = state,
         \A p : Takes(turns, "load", p) => Takes(turns, "create", p),
         \A p : Takes(turns, "destroy", p) => Takes(turns, "context", p),
         \A p : Contains(names, p) =>
           IF state = "none"
           THEN before # "none" /\ Takes(turns, "context", p) /\ Takes(turns, "destroy", p)
           ELSE IF before = "none" THEN Takes(turns, "load", p) /\ Takes(turns, "create", p)
           ELSE ~Takes(turns, "load", p) /\ ~Takes(turns, "create", p)
  PROVE  Starts
<1>1. /\ agenda = <<>> /\ agenda' = turns /\ steps' = steps + 1 /\ steps < MaxSteps
      /\ Idle /\ UNCHANGED contextVars
  BY DEF Run, Idle
<1>2. steps' \in 0 .. MaxSteps
  BY <1>1, PluginAssumption DEF Typed
<1>3. /\ pluginStates' \in [Plugins -> States]
      /\ \A p \in Plugins : pluginStates'[p] = IF Contains(names, p) THEN state ELSE pluginStates[p]
  BY DEF Enter, Typed
<1>4. \A stage, p : ~Pending(stage, p) /\ (Pending(stage, p)' <=> Takes(turns, stage, p))
  BY <1>1 DEF Pending, Takes
<1>5. \A p : Contains(names, p) => p \in Plugins /\ pluginStates[p] = before
  BY NamesListed
<1>6. Sequenced'
  <2>1. InOrder(agenda)'
    BY <1>1 DEF InOrder
  <2>2. \A stage \in StageNames : \A p \in Plugins :
          Pending(stage, p)' => pluginStates'[p] = StateIn[stage]
    BY <1>3, <1>4
  <2>3. \A p \in Plugins : /\ Pending("load", p)' => Pending("create", p)'
                           /\ Pending("destroy", p)' => Pending("context", p)'
    BY <1>4
  <2> QED
    BY <2>1, <2>2, <2>3 DEF Sequenced
<1>7. ASSUME NEW p \in Plugins
      PROVE  (Loaded(p)' <=> Loaded(p)) /\ (Created(p)' <=> Created(p))
  <2>1. CASE Contains(names, p)
    BY <1>3, <1>4, <1>5, <2>1 DEF Loaded, Created
  <2>2. CASE ~Contains(names, p)
    <3>1. pluginStates'[p] = pluginStates[p] /\ \A stage \in StageNames : ~Pending(stage, p)'
      BY <1>3, <1>4, <2>2
    <3> QED
      BY <1>4, <3>1, Ranks DEF Loaded, Created
  <2> QED
    BY <2>1, <2>2
<1> QED
  BY <1>1, <1>2, <1>3, <1>6, <1>7 DEF Starts

LEMMA StageOf ==
  ASSUME NEW names \in Seq(Plugins), NEW stage \in StageNames
  PROVE  \A k \in 1 .. Len(Turns(stage, names)) : Turns(stage, names)[k].stage = stage
<1>1. Len(names) \in Nat
  BY SeqFacts
<1>2. Turns(stage, names) = [k \in 1 .. Len(names) |-> [stage |-> stage, plugin |-> names[k]]]
  BY DEF Turns
<1> DEFINE t == Turns(stage, names)
<1>3. Len(t) = Len(names)
  BY <1>1, <1>2
<1> HIDE DEF t
<1>4. \A k \in 1 .. Len(names) : t[k].stage = stage
  BY <1>2 DEF t
<1> QED
  BY <1>3, <1>4 DEF t

LEMMA EmptyTurns ==
  /\ <<>> \in Seq(AllTurns) /\ InOrder(<<>>)
  /\ \A stage, p : ~Takes(<<>>, stage, p)
  BY DEF InOrder, Takes

LEMMA StepsStart ==
  ASSUME Typed, runLoadStep \/ runInitiliseStep \/ runFinaliseStep \/ runUnloadStep \/ runDestroyStep
  PROVE  Starts
<1>1. CASE runLoadStep
  <2>1. PICK names \in Lists("none") :
          /\ Run(Turns("load", names) \o Turns("create", names) \o Turns("postLoad", names))
          /\ Enter(names, "PostLoad")
    BY <1>1 DEF runLoadStep
  <2>2. names \in Seq(Plugins) /\ IsInjective(names)
    BY NamesListed
  <2> DEFINE a == Turns("load", names)
             b == Turns("create", names)
             c == Turns("postLoad", names)
  <2>3. /\ a \in Seq(AllTurns) /\ InOrder(a) /\ b \in Seq(AllTurns) /\ InOrder(b)
        /\ c \in Seq(AllTurns) /\ InOrder(c)
        /\ \A st, p : /\ Takes(a, st, p) <=> st = "load" /\ Contains(names, p)
                      /\ Takes(b, st, p) <=> st = "create" /\ Contains(names, p)
                      /\ Takes(c, st, p) <=> st = "postLoad" /\ Contains(names, p)
    BY <2>2, TurnsListed, Ranks
  <2>4. /\ \A k \in 1 .. Len(a) : a[k].stage = "load"
        /\ \A k \in 1 .. Len(b) : b[k].stage = "create"
        /\ \A k \in 1 .. Len(c) : c[k].stage = "postLoad"
    BY <2>2, StageOf, Ranks
  <2> HIDE DEF a, b, c
  <2>5. /\ a \o b \in Seq(AllTurns) /\ InOrder(a \o b)
        /\ \A st, p : Takes(a \o b, st, p) <=> Takes(a, st, p) \/ Takes(b, st, p)
    <3>1. \A j \in 1 .. Len(a) : \A k \in 1 .. Len(b) : Rank[a[j].stage] < Rank[b[k].stage]
      BY <2>4, Ranks
    <3> QED
      BY <2>3, <3>1, TurnsJoined
  <2>6. \A k \in 1 .. Len(a \o b) : (a \o b)[k].stage \in {"load", "create"}
    <3> SUFFICES ASSUME NEW k \in 1 .. Len(a \o b), (a \o b)[k].stage \notin {"load", "create"}
                 PROVE  FALSE
      OBVIOUS
    <3>1. Takes(a \o b, (a \o b)[k].stage, (a \o b)[k].plugin)
      BY DEF Takes
    <3> QED
      BY <2>3, <2>5, <3>1
  <2> DEFINE ab == a \o b
             abc == ab \o c
  <2> HIDE DEF ab
  <2>7. /\ abc \in Seq(AllTurns) /\ InOrder(abc)
        /\ \A st, p : Takes(abc, st, p) <=> Takes(ab, st, p) \/ Takes(c, st, p)
    <3>1. \A j \in 1 .. Len(ab) : \A k \in 1 .. Len(c) : Rank[ab[j].stage] < Rank[c[k].stage]
      BY <2>4, <2>6, Ranks DEF ab
    <3> QED
      BY <2>3, <2>5, <3>1, TurnsJoined DEF ab
  <2>8. \A st, p : Takes(abc, st, p) <=> st \in {"load", "create", "postLoad"} /\ Contains(names, p)
    BY <2>3, <2>5, <2>7 DEF ab
  <2>9. Run(abc)
    BY <2>1 DEF a, b, c, ab
  <2> HIDE DEF abc
  <2> QED
    BY <2>1, <2>7, <2>8, <2>9, RunStarts, Ranks DEF States
<1>2. ASSUME NEW from \in States \ {"none"}, NEW to \in States \ {"none"},
             NEW names \in Lists(from), Run(<<>>), Enter(names, to)
      PROVE  Starts
  <2>1. \A p : Contains(names, p) =>
          IF to = "none"
          THEN from # "none" /\ Takes(<<>>, "context", p) /\ Takes(<<>>, "destroy", p)
          ELSE IF from = "none" THEN Takes(<<>>, "load", p) /\ Takes(<<>>, "create", p)
          ELSE ~Takes(<<>>, "load", p) /\ ~Takes(<<>>, "create", p)
    BY EmptyTurns
  <2> DEFINE none == <<>>
  <2>2. /\ none \in Seq(AllTurns) /\ InOrder(none) /\ Run(none)
        /\ \A stage, p : ~Takes(none, stage, p)
        /\ \A p : Contains(names, p) =>
             IF to = "none"
             THEN from # "none" /\ Takes(none, "context", p) /\ Takes(none, "destroy", p)
             ELSE IF from = "none" THEN Takes(none, "load", p) /\ Takes(none, "create", p)
             ELSE ~Takes(none, "load", p) /\ ~Takes(none, "create", p)
    BY <1>2, <2>1, EmptyTurns
  <2> HIDE DEF none
  <2> QED
    BY <1>2, <2>2, RunStarts
<1>3. CASE runInitiliseStep
  BY <1>2, <1>3 DEF runInitiliseStep, States
<1>4. CASE runFinaliseStep
  BY <1>2, <1>4 DEF runFinaliseStep, States
<1>5. CASE runUnloadStep
  <2>1. PICK names \in Lists("Finalise") :
          Run(Turns("unload", Reverse(names))) /\ Enter(names, "Unload")
    BY <1>5 DEF runUnloadStep
  <2>2. /\ Reverse(names) \in Seq(Plugins) /\ IsInjective(Reverse(names))
        /\ \A p : Contains(Reverse(names), p) <=> Contains(names, p)
    BY NamesListed, ReverseListed
  <2> DEFINE t == Turns("unload", Reverse(names))
  <2>3. t \in Seq(AllTurns) /\ InOrder(t) /\ \A st, p : Takes(t, st, p) <=> st = "unload" /\ Contains(names, p)
    BY <2>2, TurnsListed, Ranks
  <2>4. Run(t)
    BY <2>1
  <2> HIDE DEF t
  <2> QED
    BY <2>1, <2>3, <2>4, RunStarts, Ranks DEF States
<1>6. CASE runDestroyStep
  <2>1. PICK names \in Lists("Unload") :
          /\ Run(Turns("destroy", Reverse(names)) \o Turns("context", Reverse(names)))
          /\ Enter(names, "none")
    BY <1>6 DEF runDestroyStep
  <2>2. /\ Reverse(names) \in Seq(Plugins) /\ IsInjective(Reverse(names))
        /\ \A p : Contains(Reverse(names), p) <=> Contains(names, p)
    BY NamesListed, ReverseListed
  <2> DEFINE a == Turns("destroy", Reverse(names))
             b == Turns("context", Reverse(names))
             t == a \o b
  <2>3. /\ a \in Seq(AllTurns) /\ InOrder(a) /\ b \in Seq(AllTurns) /\ InOrder(b)
        /\ \A st, p : /\ Takes(a, st, p) <=> st = "destroy" /\ Contains(names, p)
                      /\ Takes(b, st, p) <=> st = "context" /\ Contains(names, p)
    BY <2>2, TurnsListed, Ranks
  <2>4. /\ \A k \in 1 .. Len(a) : a[k].stage = "destroy"
        /\ \A k \in 1 .. Len(b) : b[k].stage = "context"
    BY <2>2, StageOf, Ranks
  <2>5. Run(t)
    BY <2>1
  <2> HIDE DEF a, b
  <2>6. /\ t \in Seq(AllTurns) /\ InOrder(t)
        /\ \A st, p : Takes(t, st, p) <=> Takes(a, st, p) \/ Takes(b, st, p)
    BY <2>3, <2>4, TurnsJoined, Ranks
  <2> HIDE DEF t
  <2>7. \A st, p : Takes(t, st, p) <=> st \in {"destroy", "context"} /\ Contains(names, p)
    BY <2>3, <2>6
  <2> QED
    BY <2>1, <2>5, <2>6, <2>7, RunStarts, Ranks DEF States
<1> QED
  BY <1>1, <1>3, <1>4, <1>5, <1>6

-----------------------------------------------------------------------------
(* The invariant is inductive *)

LEMMA Lives ==
  ASSUME IInv
  PROVE  /\ \A p \in Plugins : Created(p) => Loaded(p)
         /\ \A p \in Plugins : \A kind \in {"holder", "executor"} :
              Has(p, kind) => Created(p) /\ <<p, kind>> \in AllListeners
         /\ \A p \in Plugins : inited[p] => Has(p, "executor")
         /\ \A p \in Plugins : cached[p] # Null => Has(p, "holder")
<1>1. \A p \in Plugins : Created(p) => Loaded(p)
  BY DEF IInv, Sequenced, Created, Loaded
<1>2. ASSUME NEW p \in Plugins, NEW kind \in {"holder", "executor"}, Has(p, kind)
      PROVE  Created(p) /\ <<p, kind>> \in AllListeners
  <2>1. listeners[p] # <<>>
    BY <1>2 DEF Has, Contains
  <2>2. Created(p) /\ Contains(contexts, p)
    BY <1>1, <2>1 DEF IInv, Living
  <2> QED
    BY <1>2, <2>2 DEF AllListeners, Listeners
<1> QED
  BY <1>1, <1>2 DEF IInv, Backed

LEMMA ListenedFacts ==
  /\ \A s \in Listened : s \in Seq({"holder", "executor"}) /\ IsInjective(s)
  /\ \A kind : ~Contains(<<>>, kind)
  /\ \A s \in Listened : s # <<>> => Contains(s, "executor")
  /\ Contains(<<"holder", "executor">>, "holder") /\ Contains(<<"executor", "holder">>, "holder")
  /\ ~Contains(<<"executor">>, "holder")
  /\ \A s \in Listened : Contains(s, "executor") /\ ~Contains(s, "holder") =>
       s = <<"executor">> /\ Append(s, "holder") = <<"executor", "holder">>
<1>1. /\ <<>> \in Seq({"holder", "executor"}) /\ <<"executor">> \in Seq({"holder", "executor"})
      /\ <<"holder", "executor">> \in Seq({"holder", "executor"})
      /\ <<"executor", "holder">> \in Seq({"holder", "executor"})
  OBVIOUS
<1>2. /\ \A x : Contains(<<>>, x) <=> FALSE
      /\ \A x : Contains(<<"executor">>, x) <=> x = "executor"
      /\ \A x : Contains(<<"holder", "executor">>, x) <=> x \in {"holder", "executor"}
      /\ \A x : Contains(<<"executor", "holder">>, x) <=> x \in {"holder", "executor"}
  <2>1. \A x : Contains(<<>>, x) <=> FALSE
    BY DEF Contains
  <2>2. \A x : Contains(<<"executor">>, x) <=> x = "executor"
    BY DEF Contains
  <2>3. \A x : Contains(<<"holder", "executor">>, x) <=> x \in {"holder", "executor"}
    BY DEF Contains
  <2>4. \A x : Contains(<<"executor", "holder">>, x) <=> x \in {"holder", "executor"}
    BY DEF Contains
  <2> QED
    BY <2>1, <2>2, <2>3, <2>4
<1>3. \A s \in Listened : s \in Seq({"holder", "executor"}) /\ IsInjective(s)
  <2>1. IsInjective(<<>>)
    BY DEF IsInjective
  <2>2. IsInjective(<<"executor">>)
    BY DEF IsInjective
  <2>3. IsInjective(<<"holder", "executor">>)
    BY DEF IsInjective
  <2>4. IsInjective(<<"executor", "holder">>)
    BY DEF IsInjective
  <2> QED
    BY <1>1, <2>1, <2>2, <2>3, <2>4 DEF Listened
<1>4. Append(<<"executor">>, "holder") = <<"executor", "holder">>
  <2> DEFINE S == {"holder", "executor"}
             t == <<"executor", "holder">>
  <2>1. /\ t \in Seq(S) /\ Len(t) = 2 /\ t[1] = "executor" /\ t[2] = "holder"
        /\ <<"executor">> \in Seq(S) /\ Len(<<"executor">>) = 1 /\ <<"executor">>[1] = "executor"
    OBVIOUS
  <2>2. /\ Append(<<"executor">>, "holder") \in Seq(S) /\ Len(Append(<<"executor">>, "holder")) = 2
        /\ Append(<<"executor">>, "holder")[1] = "executor"
        /\ Append(<<"executor">>, "holder")[2] = "holder"
    BY <2>1, Appended
  <2>3. \A k \in 1 .. 2 : k = 1 \/ k = 2
    OBVIOUS
  <2> QED
    BY <2>1, <2>2, <2>3, SeqEqual
<1> QED
  BY <1>2, <1>3, <1>4 DEF Listened

\* No call is in progress before and after.
LEMMA NoCalls ==
  ASSUME Typed, ~Busy, active' = active
  PROVE  Phases' /\ Meant' /\ Leaving' /\ active' \in Seq(Calls)
<1>1. Depth = 0 /\ Depth' = 0 /\ active' = <<>> /\ active' \in Seq(Calls)
  BY Stacks DEF Busy, Typed, Depth
<1> QED
  BY <1>1 DEF Phases, Meant, Leaving

\* The first call of a turn.
LEMMA FirstCall ==
  ASSUME Typed, ~Busy, NEW c \in Calls, Call(c)
  PROVE  active' \in Seq(Calls) /\ Depth' = 1 /\ active'[1] = c /\ Phases' /\ Depth = 0
<1>1. Depth = 0 /\ Pushes(c)
  BY Stacks
<1>2. active' \in Seq(Calls) /\ Depth' = 1 /\ active'[1] = c
  BY <1>1 DEF Pushes
<1>3. \A k \in 1 .. Depth' : k = 1
  BY <1>2
<1> QED
  BY <1>1, <1>2, <1>3, CallTypes DEF Phases, Op

LEMMA SameNeeds ==
  ASSUME UNCHANGED <<listeners, interfaces, inited, cached>>
  PROVE  \A p \in Plugins : (Missed(p)' <=> Missed(p)) /\ (Unheld(p)' <=> Unheld(p))
  BY DEF Missed, Unheld, Has, Available, Registered

\* When no call is in progress, everybody is served who is not being destroyed.
LEMMA AtRest ==
  ASSUME IInv, ~Busy
  PROVE  /\ Depth = 0
         /\ Asked => \A p \in Plugins : Missed(p) => Destroying(p)
         /\ Answered => \A p \in Plugins : ~Unheld(p)
<1>1. Depth = 0
  BY Stacks DEF IInv
<1> QED
  BY <1>1 DEF Asked, Answered

LEMMA RestOnward ==
  ASSUME IInv, ~Busy, active' = active,
         \A p \in Plugins : Missed(p)' => Missed(p) /\ ~Destroying(p),
         \A p \in Plugins : Unheld(p)' => Unheld(p)
  PROVE  Onward
<1>1. Depth' = 0
  BY AtRest DEF Depth
<1>2. Finalised'
  BY <1>1 DEF Finalised
<1>3. Asked => Asked'
  BY AtRest DEF Asked
<1>4. Answered => Answered'
  BY AtRest DEF Answered
<1> QED
  BY <1>2, <1>3, <1>4 DEF Onward, Served

LEMMA NobodyDestroyed ==
  ASSUME NEW stage, Turn(stage), stage # "destroy"
  PROVE  \A p : ~Destroying(p)
  BY DEF Turn, Destroying

\* Whoever is concerned by a call stays concerned while the stack changes.
LEMMA CallsOnward ==
  ASSUME UNCHANGED pluginVars,
         \A p \in Plugins : Missed(p)' =>
           \/ Missed(p) /\ \A k \in 1 .. Depth : ForExecutor(active[k], p) =>
                \E m \in 1 .. Depth' : ForExecutor(active'[m], p)
           \/ \E m \in 1 .. Depth' : ForExecutor(active'[m], p),
         \A p \in Plugins : Unheld(p)' =>
           \/ Unheld(p) /\ \A k \in 1 .. Depth : ForHolder(active[k], p) =>
                \E m \in 1 .. Depth' : ForHolder(active'[m], p)
           \/ \E m \in 1 .. Depth' : ForHolder(active'[m], p)
  PROVE  (Asked => Asked') /\ (Answered => Answered')
<1>1. \A p : Destroying(p)' <=> Destroying(p)
  BY DEF Destroying, pluginVars
<1>2. ASSUME Asked PROVE Asked'
  <2> SUFFICES ASSUME NEW p \in Plugins, Missed(p)'
               PROVE  (\E m \in 1 .. Depth' : ForExecutor(active'[m], p)) \/ Destroying(p)'
    BY DEF Asked, ForExecutor
  <2> QED
    BY <1>1, <1>2 DEF Asked
<1>3. ASSUME Answered PROVE Answered'
  <2> SUFFICES ASSUME NEW p \in Plugins, Unheld(p)'
               PROVE  \E m \in 1 .. Depth' : ForHolder(active'[m], p)
    BY DEF Answered, ForHolder
  <2> QED
    BY <1>3 DEF Answered
<1> QED
  BY <1>2, <1>3

LEMMA NoFini ==
  ASSUME \A k \in 1 .. Depth' : Op(k)' # "fini"
  PROVE  Finalised'
  BY DEF Finalised

LEMMA FinalisedKept ==
  ASSUME UNCHANGED pluginVars,
         \A k \in 1 .. Depth' : Op(k)' = "fini" =>
           \/ /\ k \in 1 .. Depth /\ active'[k] = active[k]
              /\ k - 1 \in 1 .. Depth =>
                   /\ k - 1 \in 1 .. Depth' /\ active'[k - 1].op = active[k - 1].op
                   /\ active[k - 1].op = "deregistered" => active'[k - 1].impl = active[k - 1].impl
           \/ /\ k - 1 \in 1 .. Depth' /\ active'[k - 1].op = "deregistered"
              /\ Face[active'[k - 1].impl] \in Needs[active'[k].plugin]
  PROVE  Finalised => Finalised'
<1>1. \A p : Destroying(p)' <=> Destroying(p)
  BY DEF Destroying, pluginVars
<1> SUFFICES ASSUME Finalised, NEW k \in 1 .. Depth', Op(k)' = "fini"
             PROVE  \/ k = 1 /\ Destroying(active[k].plugin)'
                    \/ /\ k - 1 \in 1 .. Depth' /\ Op(k - 1)' = "deregistered"
                       /\ Face[active'[k - 1].impl] \in Needs[active'[k].plugin]
  BY DEF Finalised
<1>2. PICK p : p = active'[k].plugin
  OBVIOUS
<1>3. Destroying(p)' => Destroying(active[k].plugin)'
  BY <1>2 DEF Destroying
<1>4. CASE /\ k \in 1 .. Depth /\ active'[k] = active[k]
           /\ k - 1 \in 1 .. Depth =>
                /\ k - 1 \in 1 .. Depth' /\ active'[k - 1].op = active[k - 1].op
                /\ active[k - 1].op = "deregistered" => active'[k - 1].impl = active[k - 1].impl
  <2>1. Op(k) = "fini" /\ active[k].plugin = p
    BY <1>2, <1>4 DEF Op
  <2> QED
    BY <1>1, <1>2, <1>3, <1>4, <2>1 DEF Finalised, Op
<1>5. CASE /\ k - 1 \in 1 .. Depth' /\ active'[k - 1].op = "deregistered"
           /\ Face[active'[k - 1].impl] \in Needs[active'[k].plugin]
  BY <1>5 DEF Op
<1> QED
  BY <1>4, <1>5

LEMMA StartKeeps ==
  ASSUME IInv, Starts
  PROVE  IInv' /\ Onward
<1>1. UNCHANGED contextVars /\ ~Busy
  BY DEF Starts, Idle
<1>2. Typed' /\ Sequenced'
  BY <1>1 DEF Starts, IInv, Typed, contextVars
<1>3. Living'
  <2>1. \A i \in interfaces : Provider[i] \in Plugins
    BY ContextAssumption DEF IInv, Typed
  <2> QED
    BY <1>1, <2>1 DEF Starts, IInv, Living, contextVars
<1>4. Backed'
  BY <1>1 DEF IInv, Backed, Has, Available, Registered, contextVars
<1>5. Onward
  <2>1. \A p : ~Destroying(p)
    BY DEF Starts, Idle, Destroying
  <2> QED
    BY <1>1, <2>1, SameNeeds, RestOnward DEF contextVars
<1> QED
  BY <1>1, <1>2, <1>3, <1>4, <1>5, NoCalls DEF IInv, contextVars

\* The turn of q ends, and nothing else happens.
LEMMA TurnEndKeeps ==
  ASSUME IInv, NEW stage \in {"postLoad", "unload"}, Turn(stage), TurnEnds,
         UNCHANGED <<contextVars, pluginStates, steps>>
  PROVE  IInv' /\ Onward
<1>1. UNCHANGED contextVars /\ ~Busy /\ agenda # <<>>
  BY DEF Turn
<1>2. Typed' /\ Sequenced'
  BY <1>1, TurnEnded DEF IInv, Typed, contextVars
<1>3. Living'
  <2>1. \A i \in interfaces : Provider[i] \in Plugins
    BY ContextAssumption DEF IInv, Typed
  <2>2. \A p \in Plugins : (Loaded(p)' <=> Loaded(p)) /\ (Created(p)' <=> Created(p))
    <3>1. PICK q : q = Plugin
      OBVIOUS
    <3>2. stage \in StageNames
      BY DEF StageNames
    <3> QED
      BY <3>1, <3>2, TurnLives DEF IInv
  <2> QED
    BY <1>1, <2>1, <2>2 DEF IInv, Living, contextVars
<1>4. Backed'
  BY <1>1 DEF IInv, Backed, Has, Available, Registered, contextVars
<1>5. Onward
  BY <1>1, SameNeeds, NobodyDestroyed, RestOnward DEF contextVars
<1> QED
  BY <1>1, <1>2, <1>3, <1>4, <1>5, NoCalls DEF IInv, contextVars

LEMMA LoadKeeps ==
  ASSUME IInv, LoadPlugin
  PROVE  IInv' /\ Onward
<1>1. PICK q : q = Plugin
  OBVIOUS
<1>2. /\ Turn("load") /\ TurnEnds /\ contexts' = Append(contexts, q) /\ ~Busy /\ agenda # <<>>
      /\ UNCHANGED <<listeners, interfaces, inited, cached, active, pluginStates, steps>>
  BY <1>1 DEF LoadPlugin, Turn
<1>3. /\ agenda' \in Seq(AllTurns) /\ Sequenced' /\ q \in Plugins
      /\ \A p \in Plugins \ {q} : (Loaded(p)' <=> Loaded(p)) /\ (Created(p)' <=> Created(p))
      /\ ~Created(q) /\ ~Created(q)' /\ ~Loaded(q) /\ Loaded(q)'
  BY <1>1, <1>2, TurnEnded, TurnLives, Ranks DEF IInv
<1>4. ~Contains(contexts, q)
  BY <1>3 DEF IInv, Living
<1>5. /\ contexts' \in Seq(Plugins) /\ IsInjective(contexts')
      /\ \A p : Contains(contexts', p) <=> Contains(contexts, p) \/ p = q
  <2> DEFINE n == Len(contexts)
  <2>1. /\ contexts \in Seq(Plugins) /\ n \in Nat /\ DOMAIN contexts = 1 .. n
        /\ contexts' \in Seq(Plugins) /\ Len(contexts') = n + 1
        /\ \A k \in 1 .. n : contexts'[k] = contexts[k]
        /\ contexts'[n + 1] = q
    BY <1>2, <1>3, Appended, SeqFacts DEF IInv, Typed
  <2>2. DOMAIN contexts' = 1 .. n + 1
    BY <2>1, SeqFacts
  <2>3. \A j, k \in 1 .. n : contexts[j] = contexts[k] => j = k
    BY <2>1 DEF IInv, Typed, IsInjective
  <2>4. \A k \in 1 .. n : contexts[k] # q
    BY <1>4 DEF Contains
  <2> HIDE DEF n
  <2>5. \A k \in 1 .. n + 1 : k \in 1 .. n \/ k = n + 1
    BY <2>1
  <2>6. IsInjective(contexts')
    <3> SUFFICES ASSUME NEW j \in 1 .. n + 1, NEW k \in 1 .. n + 1, contexts'[j] = contexts'[k]
                 PROVE  j = k
      BY <2>2 DEF IsInjective
    <3> QED
      BY <2>1, <2>3, <2>4, <2>5
  <2>7. \A p : Contains(contexts', p) <=> Contains(contexts, p) \/ p = q
    <3>1. \A k \in 1 .. n : k \in 1 .. n + 1
      BY <2>1
    <3>2. n + 1 \in 1 .. n + 1
      BY <2>1
    <3> QED
      BY <2>1, <2>5, <3>1, <3>2 DEF Contains, n
  <2> QED
    BY <2>1, <2>6, <2>7
<1>6. Typed'
  BY <1>2, <1>3, <1>5 DEF IInv, Typed
<1>7. Living'
  <2>1. \A i \in interfaces : Provider[i] \in Plugins
    BY ContextAssumption DEF IInv, Typed
  <2>2. \A p \in Plugins : Contains(contexts, p)' <=> Loaded(p)'
    BY <1>3, <1>5 DEF IInv, Living
  <2> QED
    BY <1>2, <1>3, <2>1, <2>2 DEF IInv, Living
<1>8. Backed'
  BY <1>2 DEF IInv, Backed, Has, Available, Registered
<1>9. Onward
  BY <1>2, SameNeeds, NobodyDestroyed, RestOnward
<1> QED
  BY <1>2, <1>3, <1>6, <1>7, <1>8, <1>9, NoCalls DEF IInv

\* An interface is registered, at the start of a turn or by an init function.
LEMMA RegisterKeeps ==
  ASSUME IInv, NEW i \in Implementations, registerInterface(i), Loaded(Provider[i]),
         \A k \in 1 .. Depth : Op(k) \in {"registered", "init"},
         UNCHANGED <<contexts, listeners, inited, cached, pluginVars>>
  PROVE  IInv' /\ Onward
<1> DEFINE c == [op |-> "registered", impl |-> i, called |-> {}]
<1>1. c \in Calls /\ c.op = "registered" /\ c.impl = i /\ c.called = {}
  BY CallTypes
<1>2. Typed
  BY DEF IInv
<1>3. /\ interfaces' = interfaces \cup {i} /\ Pushes(c)
      /\ UNCHANGED <<pluginStates, agenda, steps>>
  BY <1>1, <1>2, Stacks DEF registerInterface, pluginVars
<1>4. Depth \in Nat
  BY <1>2, Stacks
<1>5. \A k \in 1 .. Depth' : (k \in 1 .. Depth /\ active'[k] = active[k]) \/ (k = Depth + 1 /\ active'[k] = c)
  BY <1>3, <1>4 DEF Pushes
<1> HIDE DEF c
<1>6. /\ Sequenced' /\ \A p \in Plugins : (Loaded(p)' <=> Loaded(p)) /\ (Created(p)' <=> Created(p))
  BY <1>3 DEF IInv, Sequenced, Loaded, Created, Pending
<1>7. Typed'
  BY <1>3 DEF IInv, Typed, Pushes
<1>8. \A k \in 1 .. Depth' : Op(k)' \in {"registered", "init"}
  BY <1>1, <1>5 DEF Op
<1>9. Phases'
  BY <1>8 DEF Phases
<1>10. \A j \in interfaces : Provider[j] \in Plugins
  BY ContextAssumption DEF IInv, Typed
<1>11. Living'
  BY <1>3, <1>6, <1>10, ContextAssumption DEF IInv, Living
<1>12. \A face : Registered(face) \subseteq Registered(face)'
  BY <1>3 DEF Registered
<1>13. Backed'
  BY <1>12 DEF IInv, Backed, Has, Available
<1>14. Meant'
  <2>1. ASSUME NEW k \in 1 .. Depth' PROVE Op(k)' = "registered" => active'[k].impl \in interfaces'
    BY <1>1, <1>3, <1>5 DEF IInv, Meant, Op
  <2>2. ASSUME NEW k \in 1 .. Depth', Op(k)' = "init" PROVE Loaded(active[k].plugin)'
    <3>1. k \in 1 .. Depth /\ active'[k] = active[k] /\ Op(k) = "init"
      BY <1>1, <1>5, <2>2 DEF Op
    <3>2. Loaded(active[k].plugin) /\ active[k].plugin \in Plugins
      BY <1>2, <3>1, Stacks, CallTypes DEF IInv, Meant, Op
    <3>3. PICK p \in Plugins : p = active[k].plugin
      BY <3>2
    <3>4. active'[k].plugin = p /\ Loaded(p)'
      BY <1>6, <3>1, <3>2, <3>3
    <3> QED
      BY <3>4
  <2> QED
    BY <2>1, <2>2 DEF Meant
<1>15. Leaving'
  BY <1>8 DEF Leaving
<1>16. Onward
  <2>1. Depth + 1 \in 1 .. Depth' /\ active'[Depth + 1] = c
    BY <1>3, <1>4 DEF Pushes
  <2>2. \A k \in 1 .. Depth : k \in 1 .. Depth' /\ active'[k] = active[k]
    BY <1>3, <1>4 DEF Pushes
  <2>3. \A p \in Plugins : ForExecutor(c, p)
    BY <1>1 DEF ForExecutor
  <2>4. ASSUME NEW p \in Plugins, Unheld(p)' PROVE Unheld(p) \/ ForHolder(c, p)
    <3>1. CASE Wants[p] = Face[i]
      BY <1>1, <3>1 DEF ForHolder
    <3>2. CASE Wants[p] # Face[i]
      <4>1. Registered(Wants[p])' = Registered(Wants[p])
        BY <1>3, <3>2 DEF Registered
      <4> QED
        BY <2>4, <4>1 DEF Unheld, Has
    <3> QED
      BY <3>1, <3>2
  <2>5. Finalised'
    BY <1>8, NoFini
  <2>6. (Asked => Asked') /\ (Answered => Answered')
    BY <2>1, <2>2, <2>3, <2>4, CallsOnward
  <2> QED
    BY <2>5, <2>6 DEF Onward, Served
<1> QED
  BY <1>6, <1>7, <1>9, <1>11, <1>13, <1>14, <1>15, <1>16 DEF IInv

\* An interface is about to go, at the start of a turn or from a fini function.
LEMMA DeregisterKeeps ==
  ASSUME IInv, NEW i \in Implementations, deregisterInterface(i),
         \A k \in 1 .. Depth : Op(k) \in {"deregistered", "fini"},
         UNCHANGED <<contexts, listeners, inited, cached, pluginVars>>
  PROVE  IInv' /\ Onward
<1> DEFINE c == [op |-> "deregistered", impl |-> i, left |-> AllListeners]
<1>0. AllListeners \in SUBSET Listeners
  BY DEF AllListeners
<1>1. c \in Calls /\ c.op = "deregistered" /\ c.impl = i /\ c.left = AllListeners
  BY <1>0, CallTypes
<1>2. Typed
  BY DEF IInv
<1>3. /\ interfaces' = interfaces /\ Pushes(c)
      /\ UNCHANGED <<pluginStates, agenda, steps>>
  BY <1>1, <1>2, Stacks DEF deregisterInterface, pluginVars
<1>4. Depth \in Nat /\ Depth' = Depth + 1
  BY <1>2, <1>3, Stacks DEF Pushes
<1>5. \A k \in 1 .. Depth' : (k \in 1 .. Depth /\ active'[k] = active[k]) \/ (k = Depth + 1 /\ active'[k] = c)
  BY <1>3, <1>4 DEF Pushes
<1> HIDE DEF c
<1>6. /\ Sequenced' /\ \A p \in Plugins : (Loaded(p)' <=> Loaded(p)) /\ (Created(p)' <=> Created(p))
  BY <1>3 DEF IInv, Sequenced, Loaded, Created, Pending
<1>7. Typed'
  BY <1>3 DEF IInv, Typed, Pushes
<1>8. \A k \in 1 .. Depth' : Op(k)' \in {"deregistered", "fini"}
  BY <1>1, <1>5 DEF Op
<1>9. Phases' /\ Meant'
  BY <1>8 DEF Phases, Meant
<1>10. \A j \in interfaces : Provider[j] \in Plugins
  BY ContextAssumption DEF IInv, Typed
<1>11. Living' /\ Backed'
  BY <1>3, <1>6, <1>10 DEF IInv, Living, Backed, Has, Available, Registered
<1>12. Leaving'
  <2> SUFFICES ASSUME NEW k \in 1 .. Depth', Op(k)' = "deregistered", NEW p \in Plugins
               PROVE  Told(k, p)'
    BY DEF Leaving
  <2>1. CASE k \in 1 .. Depth /\ active'[k] = active[k]
    <3>1. Told(k, p)
      BY <2>1 DEF IInv, Leaving, Op
    <3>2. \A m \in k + 1 .. Depth : m \in k + 1 .. Depth' /\ active'[m] = active[m]
      BY <1>3, <1>4, <2>1 DEF Pushes
    <3> QED
      BY <2>1, <3>1, <3>2 DEF Told
  <2>2. CASE active'[k] = c
    BY <1>1, <2>2, Lives, ContextAssumption DEF Told
  <2> QED
    BY <1>5, <2>1, <2>2
<1>13. Onward
  <2>1. \A k \in 1 .. Depth : k \in 1 .. Depth' /\ active'[k] = active[k]
    BY <1>3, <1>4 DEF Pushes
  <2>2. \A p \in Plugins : (Missed(p)' <=> Missed(p)) /\ (Unheld(p)' <=> Unheld(p))
    BY <1>3, SameNeeds
  <2>3. (Asked => Asked') /\ (Answered => Answered')
    BY <2>1, <2>2, CallsOnward
  <2>4. Finalised => Finalised'
    <3>1. \A k \in 1 .. Depth' : Op(k)' = "fini" => k \in 1 .. Depth /\ active'[k] = active[k]
      BY <1>1, <1>5 DEF Op
    <3> QED
      BY <2>1, <3>1, FinalisedKept
  <2> QED
    BY <2>3, <2>4 DEF Onward, Served
<1> QED
  BY <1>6, <1>7, <1>9, <1>11, <1>12, <1>13 DEF IInv

LEMMA PostLoadKeeps ==
  ASSUME IInv, PostLoad
  PROVE  IInv' /\ Onward
<1>1. Turn("postLoad") /\ UNCHANGED <<contexts, listeners, inited, cached, pluginStates, steps>>
  BY DEF PostLoad
<1>2. CASE (\E i \in ByPostLoad(Plugin) \ interfaces : registerInterface(i)) /\ UNCHANGED agenda
  <2>1. PICK i \in ByPostLoad(Plugin) \ interfaces : registerInterface(i)
    BY <1>2
  <2>2. i \in Implementations /\ Provider[i] = Plugin
    BY ContextAssumption DEF ByPostLoad
  <2>3. Depth = 0
    BY <1>1, Stacks DEF IInv, Turn
  <2>4. Loaded(Provider[i])
    <3>1. PICK q : q = Plugin
      OBVIOUS
    <3>2. q \in Plugins /\ pluginStates[q] = "PostLoad" /\ ~Pending("load", q)
      BY <1>1, <3>1, Underway, Ranks DEF IInv
    <3> QED
      BY <2>2, <3>1, <3>2 DEF Loaded
  <2> QED
    BY <1>1, <1>2, <2>1, <2>2, <2>3, <2>4, RegisterKeeps DEF pluginVars
<1>3. CASE TurnEnds /\ UNCHANGED <<interfaces, active>>
  BY <1>1, <1>3, TurnEndKeeps DEF contextVars
<1> QED
  BY <1>2, <1>3 DEF PostLoad

LEMMA UnloadKeeps ==
  ASSUME IInv, UnloadPlugin
  PROVE  IInv' /\ Onward
<1>1. Turn("unload") /\ UNCHANGED <<contexts, listeners, inited, cached, pluginStates, steps>>
  BY DEF UnloadPlugin
<1>2. CASE (\E i \in interfaces : deregisterInterface(i)) /\ UNCHANGED agenda
  <2>1. PICK i \in interfaces : deregisterInterface(i)
    BY <1>2
  <2>2. i \in Implementations
    BY DEF IInv, Typed
  <2>3. Depth = 0
    BY <1>1, Stacks DEF IInv, Turn
  <2> QED
    BY <1>1, <1>2, <2>1, <2>2, <2>3, DeregisterKeeps DEF pluginVars
<1>3. CASE TurnEnds /\ UNCHANGED <<interfaces, active>>
  BY <1>1, <1>3, TurnEndKeeps DEF contextVars
<1> QED
  BY <1>2, <1>3 DEF UnloadPlugin

LEMMA ProvidedAll == \A i \in Implementations : \A p : i \in Provided(p) <=> Provider[i] = p
  BY ContextAssumption DEF Provided, ByPostLoad, ByCallback

LEMMA AnswersRegistered ==
  ASSUME IInv, NEW p \in Plugins, Holds(p)
  PROVE  \E answer \in Implementations \cup {Null} :
           /\ cached' = [cached EXCEPT ![p] = answer]
           /\ answer # Null => answer \in Registered(Wants[p])
           /\ answer = Null => Registered(Wants[p]) = {}
<1>1. PICK answer \in Answers(p) : cached' = [cached EXCEPT ![p] = answer]
  BY DEF Holds
<1>2. Registered(Wants[p]) \subseteq Implementations
  BY DEF Registered, IInv, Typed
<1> QED
  BY <1>1, <1>2, ContextAssumption DEF Answers

LEMMA CreateKeeps ==
  ASSUME IInv, CreatePlugin
  PROVE  IInv' /\ Onward
<1>1. PICK q : q = Plugin
  OBVIOUS
<1> DEFINE starts == Available(q) /\ interfaces # {}
<1>2. PICK own \in Listened \ {<<>>}, answer \in Implementations \cup {Null} :
        /\ listeners' = [listeners EXCEPT ![q] = own]
        /\ cached' = [cached EXCEPT ![q] = answer]
        /\ answer # Null => Contains(own, "holder") /\ answer \in Registered(Wants[q])
        /\ answer = Null /\ Contains(own, "holder") => Registered(Wants[q]) = {}
        /\ Turn("create") /\ TurnEnds /\ q \in Plugins
        /\ inited' = [inited EXCEPT ![q] = starts]
        /\ IF starts THEN Call(InitCall(q)) ELSE UNCHANGED active
        /\ UNCHANGED <<contexts, interfaces, pluginStates, steps>>
  <2>1. /\ Turn("create") /\ TurnEnds
        /\ inited' = [inited EXCEPT ![q] = starts]
        /\ IF starts THEN Call(InitCall(q)) ELSE UNCHANGED active
        /\ UNCHANGED <<contexts, interfaces, pluginStates, steps>>
    BY <1>1 DEF CreatePlugin
  <2>2. q \in Plugins /\ ~Created(q)
    BY <1>1, <2>1, Underway, TurnLives, Ranks DEF IInv
  <2>3. listeners[q] = <<>> /\ cached[q] = Null
    <3>1. listeners[q] = <<>>
      BY <2>2 DEF IInv, Living
    <3> QED
      BY <2>2, <3>1, ListenedFacts DEF IInv, Backed, Has
  <2>4. cached \in [Plugins -> Implementations \cup {Null}]
    BY DEF IInv, Typed
  <2>5. CASE q \notin Late
    <3>1. listeners' = [listeners EXCEPT ![q] = <<"holder", "executor">>] /\ Holds(q)
      BY <1>1, <2>5 DEF CreatePlugin
    <3> QED
      BY <2>1, <2>2, <3>1, AnswersRegistered, ListenedFacts DEF Listened
  <2>6. CASE q \in Late /\ starts
    <3>1. listeners' = [listeners EXCEPT ![q] = <<"executor", "holder">>] /\ Holds(q)
      BY <1>1, <2>6 DEF CreatePlugin
    <3> QED
      BY <2>1, <2>2, <3>1, AnswersRegistered, ListenedFacts DEF Listened
  <2>7. CASE q \in Late /\ ~starts
    <3>1. listeners' = [listeners EXCEPT ![q] = <<"executor">>] /\ cached' = cached
      BY <1>1, <2>7 DEF CreatePlugin
    <3>2. cached' = [cached EXCEPT ![q] = Null]
      BY <2>2, <2>3, <2>4, <3>1
    <3> QED
      BY <2>1, <2>2, <3>1, <3>2, ListenedFacts DEF Listened
  <2> QED
    BY <2>5, <2>6, <2>7
<1>3. /\ agenda' \in Seq(AllTurns) /\ Sequenced' /\ ~Busy
      /\ \A p \in Plugins \ {q} : (Loaded(p)' <=> Loaded(p)) /\ (Created(p)' <=> Created(p))
      /\ Created(q)' /\ Loaded(q) /\ Loaded(q)'
  BY <1>1, <1>2, TurnEnded, TurnLives, Ranks DEF IInv, Turn
<1>4. active' \in Seq(Calls) /\ Phases' /\ Meant' /\ Leaving'
  <2>1. CASE ~starts
    BY <1>2, <1>3, <2>1, NoCalls DEF IInv
  <2>2. CASE starts
    <3>1. InitCall(q) \in Calls /\ InitCall(q).op = "init" /\ InitCall(q).plugin = q
      BY <1>2, CallTypes DEF InitCall
    <3>2. active' \in Seq(Calls) /\ Depth' = 1 /\ active'[1] = InitCall(q) /\ Phases'
      BY <1>2, <1>3, <2>2, <3>1, FirstCall DEF IInv
    <3>3. \A k \in 1 .. Depth' : k = 1
      BY <3>2
    <3>4. Meant'
      BY <1>3, <3>1, <3>2, <3>3 DEF Meant, Op
    <3>5. Leaving'
      BY <3>1, <3>2, <3>3 DEF Leaving, Op
    <3> QED
      BY <3>2, <3>4, <3>5
  <2> QED
    BY <2>1, <2>2
<1>5. Typed'
  BY <1>2, <1>3, <1>4 DEF IInv, Typed
<1>6. \A i \in interfaces : Provider[i] \in Plugins
  BY ContextAssumption DEF IInv, Typed
<1>7. Living'
  BY <1>2, <1>3, <1>6 DEF IInv, Living, Typed
<1>8. Backed'
  <2>1. \A face : Registered(face)' = Registered(face)
    BY <1>2 DEF Registered
  <2>2. listeners'[q] = own /\ inited'[q] = starts /\ cached'[q] = answer
    BY <1>2 DEF IInv, Typed
  <2>3. \A p \in Plugins \ {q} : listeners'[p] = listeners[p] /\ inited'[p] = inited[p] /\ cached'[p] = cached[p]
    BY <1>2 DEF IInv, Typed
  <2>4. Contains(own, "executor")
    BY <1>2, ListenedFacts
  <2>5. ASSUME NEW p \in Plugins PROVE inited'[p] => Has(p, "executor")' /\ Available(p)'
    BY <2>1, <2>2, <2>3, <2>4, <2>5 DEF IInv, Backed, Has, Available
  <2>6. ASSUME NEW p \in Plugins PROVE cached'[p] # Null => Has(p, "holder")' /\ cached'[p] \in Registered(Wants[p])'
    BY <1>2, <2>1, <2>2, <2>3, <2>6 DEF IInv, Backed, Has
  <2> QED
    BY <2>5, <2>6 DEF Backed
<1>9. Onward
  <2>1. \A p : ~Destroying(p)
    BY <1>2, NobodyDestroyed
  <2>2. listeners'[q] = own /\ inited'[q] = starts /\ cached'[q] = answer
    BY <1>2 DEF IInv, Typed
  <2>3. \A p \in Plugins \ {q} : listeners'[p] = listeners[p] /\ inited'[p] = inited[p] /\ cached'[p] = cached[p]
    BY <1>2 DEF IInv, Typed
  <2>4. \A face : Registered(face)' = Registered(face)
    BY <1>2 DEF Registered
  <2>5. Served => \A p \in Plugins \ {q} : ~Missed(p)
    BY <1>3, <2>1, AtRest DEF Served
  <2>6. \A p \in Plugins \ {q} : (Missed(p)' => Missed(p)) /\ (Unheld(p)' => Unheld(p))
    BY <2>3, <2>4 DEF Missed, Unheld, Has, Available
  <2>7. Needy => ~Missed(q)'
    <3> SUFFICES ASSUME Needy, Missed(q)' PROVE FALSE
      OBVIOUS
    <3>1. Available(q) /\ ~starts
      BY <2>2, <2>4 DEF Missed, Available
    <3>2. PICK face \in Needs[q] : Registered(face) # {}
      BY <1>2, <3>1 DEF Needy, Available
    <3> QED
      BY <3>1, <3>2 DEF Registered
  <2>8. ~Unheld(q)'
    BY <1>2, <2>2, <2>4 DEF Unheld, Has
  <2>9. Needy /\ Served => Asked'
    BY <2>5, <2>6, <2>7 DEF Asked
  <2>10. Answered => Answered'
    BY <1>3, <2>6, <2>8, AtRest DEF Answered
  <2>11. Finalised'
    <3>1. CASE ~starts
      <4>1. Depth' = 0
        BY <1>2, <1>3, <3>1, AtRest DEF Depth
      <4> QED
        BY <4>1 DEF Finalised
    <3>2. CASE starts
      <4>1. InitCall(q) \in Calls /\ InitCall(q).op = "init"
        BY <1>2, CallTypes DEF InitCall
      <4>2. Depth' = 1 /\ active'[1] = InitCall(q)
        BY <1>2, <1>3, <3>2, <4>1, FirstCall DEF IInv
      <4>3. \A k \in 1 .. Depth' : k = 1
        BY <4>2
      <4> QED
        BY <4>1, <4>2, <4>3 DEF Finalised, Op
    <3> QED
      BY <3>1, <3>2
  <2> QED
    BY <2>9, <2>10, <2>11 DEF Onward, Served
<1> QED
  BY <1>3, <1>4, <1>5, <1>7, <1>8, <1>9 DEF IInv

LEMMA DestroyKeeps ==
  ASSUME IInv, DestroyPlugin
  PROVE  IInv' /\ Onward
<1>1. PICK q : q = Plugin
  OBVIOUS
<1>2. Turn("destroy") /\ ~Busy /\ UNCHANGED <<contexts, interfaces, inited, pluginStates, steps>>
  BY DEF DestroyPlugin, Turn
<1>3. q \in Plugins
  BY <1>1, <1>2, Underway, Ranks DEF IInv
<1>4. CASE inited[q] /\ Call(FiniCall(q)) /\ UNCHANGED <<listeners, cached, agenda>>
  <2>1. FiniCall(q) \in Calls /\ FiniCall(q).op = "fini"
    BY <1>3, CallTypes DEF FiniCall
  <2>2. active' \in Seq(Calls) /\ Depth' = 1 /\ active'[1] = FiniCall(q) /\ Phases'
    BY <1>2, <1>4, <2>1, FirstCall DEF IInv
  <2>3. \A k \in 1 .. Depth' : Op(k)' = "fini"
    BY <2>1, <2>2 DEF Op
  <2>4. Meant' /\ Leaving'
    BY <2>3 DEF Meant, Leaving
  <2>5. Typed' /\ Sequenced' /\ Living' /\ Backed'
    BY <1>2, <1>4, <2>2 DEF IInv, Typed, Sequenced, Living, Backed, Loaded, Created, Pending, Has, Available, Registered
  <2>6. Onward
    <3>1. \A p \in Plugins : (Missed(p)' <=> Missed(p)) /\ (Unheld(p)' <=> Unheld(p))
      BY <1>2, <1>4, SameNeeds
    <3>2. (Asked => Asked') /\ (Answered => Answered')
      <4>1. \A p : Destroying(p)' <=> Destroying(p)
        BY <1>4 DEF Destroying
      <4> QED
        BY <1>2, <3>1, <4>1, AtRest DEF Asked, Answered
    <3>3. FiniCall(q).plugin = q
      BY DEF FiniCall
    <3>4. Destroying(q)'
      <4>1. agenda # <<>> /\ Head(agenda).stage = "destroy" /\ Head(agenda).plugin = q
        BY <1>1, <1>2 DEF Turn, Plugin
      <4>2. Head(agenda) \in AllTurns
        BY <4>1, Tails DEF IInv, Typed
      <4> QED
        BY <1>4, <4>1, <4>2 DEF Destroying, AllTurns
    <3>5. Finalised'
      <4> SUFFICES ASSUME NEW k \in 1 .. Depth'
                   PROVE  k = 1 /\ Destroying(active[k].plugin)'
        BY DEF Finalised
      <4>1. k = 1 /\ active'[k].plugin = q
        BY <2>2, <3>3
      <4> QED
        BY <3>4, <4>1 DEF Destroying
    <3> QED
      BY <3>2, <3>5 DEF Onward, Served
  <2> QED
    BY <2>2, <2>4, <2>5, <2>6 DEF IInv
<1>5. CASE /\ ~inited[q] /\ TurnEnds /\ UNCHANGED active
           /\ listeners' = [listeners EXCEPT ![q] = <<>>] /\ cached' = [cached EXCEPT ![q] = Null]
  <2>1. /\ agenda' \in Seq(AllTurns) /\ Sequenced'
        /\ \A p \in Plugins \ {q} : (Loaded(p)' <=> Loaded(p)) /\ (Created(p)' <=> Created(p))
        /\ Loaded(q) /\ Loaded(q)'
    BY <1>1, <1>2, <1>5, TurnEnded, TurnLives, Ranks DEF IInv, Turn
  <2>2. Typed'
    BY <1>2, <1>3, <1>5, <2>1 DEF IInv, Typed, Listened
  <2>3. /\ listeners'[q] = <<>> /\ cached'[q] = Null
        /\ \A p \in Plugins \ {q} : listeners'[p] = listeners[p] /\ cached'[p] = cached[p]
    BY <1>3, <1>5 DEF IInv, Typed
  <2>4. \A i \in interfaces : Provider[i] \in Plugins
    BY ContextAssumption DEF IInv, Typed
  <2>5. Living'
    BY <1>2, <2>1, <2>3, <2>4 DEF IInv, Living
  <2>6. Backed'
    BY <1>2, <1>5, <2>3 DEF IInv, Backed, Has, Available, Registered
  <2>7. Onward
    <3>1. \A p : Destroying(p) => p = q
      BY <1>1 DEF Destroying, Plugin
    <3>2. ~Missed(q)' /\ ~Unheld(q)'
      BY <2>3, ListenedFacts DEF Missed, Unheld, Has
    <3>3. \A p \in Plugins \ {q} : (Missed(p)' => Missed(p)) /\ (Unheld(p)' => Unheld(p))
      BY <1>2, <2>3 DEF Missed, Unheld, Has, Available, Registered
    <3> QED
      BY <1>2, <1>5, <3>1, <3>2, <3>3, RestOnward
  <2> QED
    BY <1>2, <1>5, <2>1, <2>2, <2>5, <2>6, <2>7, NoCalls DEF IInv
<1> QED
  BY <1>1, <1>4, <1>5 DEF DestroyPlugin

LEMMA ContextKeeps ==
  ASSUME IInv, DestroyContext
  PROVE  IInv' /\ Onward
<1>1. PICK q : q = Plugin
  OBVIOUS
<1>2. Turn("context") /\ ~Busy /\ UNCHANGED <<listeners, inited, cached, pluginStates, steps>>
  BY DEF DestroyContext, Turn
<1>3. q \in Plugins
  BY <1>1, <1>2, Underway, Ranks DEF IInv
<1>4. CASE (\E i \in Provided(q) \cap interfaces : deregisterInterface(i)) /\ UNCHANGED <<contexts, agenda>>
  <2>1. PICK i \in interfaces : deregisterInterface(i)
    BY <1>4
  <2>2. i \in Implementations
    BY DEF IInv, Typed
  <2>3. Depth = 0
    BY <1>2, Stacks DEF IInv
  <2> QED
    BY <1>2, <1>4, <2>1, <2>2, <2>3, DeregisterKeeps DEF pluginVars
<1>5. CASE /\ Provided(q) \cap interfaces = {} /\ TurnEnds /\ UNCHANGED <<interfaces, active>>
           /\ contexts' = RemoveAt(contexts, Position(contexts, q))
  <2>1. /\ agenda' \in Seq(AllTurns) /\ Sequenced'
        /\ \A p \in Plugins \ {q} : (Loaded(p)' <=> Loaded(p)) /\ (Created(p)' <=> Created(p))
        /\ Loaded(q) /\ ~Loaded(q)' /\ ~Created(q) /\ ~Created(q)'
    BY <1>1, <1>2, <1>5, TurnEnded, TurnLives, Ranks DEF IInv, Turn
  <2>2. /\ contexts' \in Seq(Plugins) /\ IsInjective(contexts')
        /\ \A p : Contains(contexts', p) <=> Contains(contexts, p) /\ p # q
    <3>1. contexts \in Seq(Plugins) /\ IsInjective(contexts) /\ Contains(contexts, q)
      BY <1>3, <2>1 DEF IInv, Typed, Living
    <3> QED
      BY <1>5, <3>1, Removed
  <2>3. Typed'
    BY <1>2, <1>5, <2>1, <2>2 DEF IInv, Typed
  <2>4. \A i \in interfaces : Provider[i] \in Plugins \ {q}
    BY <1>5, ProvidedAll, ContextAssumption DEF IInv, Typed
  <2>5. Living'
    <3>1. \A p \in Plugins : Contains(contexts, p)' <=> Loaded(p)'
      BY <2>1, <2>2 DEF IInv, Living
    <3> QED
      BY <1>2, <1>5, <2>1, <2>4, <3>1 DEF IInv, Living
  <2>6. Backed'
    BY <1>2, <1>5 DEF IInv, Backed, Has, Available, Registered
  <2>7. Onward
    BY <1>2, <1>5, SameNeeds, NobodyDestroyed, RestOnward
  <2> QED
    BY <1>2, <1>5, <2>1, <2>3, <2>5, <2>6, <2>7, NoCalls DEF IInv
<1> QED
  BY <1>1, <1>4, <1>5 DEF DestroyContext

LEMMA OneWay ==
  ASSUME IInv, Busy
  PROVE  /\ Op(Depth) \in {"registered", "init"} =>
              \A k \in 1 .. Depth : Op(k) \in {"registered", "init"}
         /\ Op(Depth) \in {"deregistered", "fini"} =>
              \A k \in 1 .. Depth : Op(k) \in {"deregistered", "fini"}
  BY Stacks DEF IInv, Phases

LEMMA SameLives ==
  ASSUME UNCHANGED pluginVars, Sequenced
  PROVE  /\ Sequenced'
         /\ \A p \in Plugins : (Loaded(p)' <=> Loaded(p)) /\ (Created(p)' <=> Created(p))
  BY DEF pluginVars, Sequenced, Loaded, Created, Pending

\* What the calls are about stays there while their stack changes at its end.
LEMMA CallsMeant ==
  ASSUME IInv, UNCHANGED pluginVars, Depth' \in Nat,
         \A k \in 1 .. Depth' :
           \/ /\ k \in 1 .. Depth /\ active'[k].op = Op(k)
              /\ Op(k) = "registered" => active'[k].impl = active[k].impl
              /\ Op(k) = "init" => active'[k].plugin = active[k].plugin
           \/ active'[k].op \notin {"registered", "init"}
           \/ active'[k].op = "init" /\ active'[k].plugin \in Plugins /\ Loaded(active'[k].plugin),
         \A k \in 1 .. Depth : Op(k) = "registered" => active[k].impl \in interfaces'
  PROVE  Meant'
<1>1. \A p \in Plugins : Loaded(p)' <=> Loaded(p)
  BY SameLives DEF IInv
<1>2. ASSUME NEW k \in 1 .. Depth', Op(k)' = "registered" PROVE active'[k].impl \in interfaces'
  BY <1>2 DEF Op
<1>3. ASSUME NEW k \in 1 .. Depth', Op(k)' = "init" PROVE Loaded(active[k].plugin)'
  <2>1. PICK p : p = active'[k].plugin
    OBVIOUS
  <2>2. CASE k \in 1 .. Depth /\ Op(k) = "init" /\ active'[k].plugin = active[k].plugin
    <3>1. active[k] \in Calls
      BY <2>2, Stacks DEF IInv
    <3>2. p \in Plugins /\ p = active[k].plugin
      BY <2>1, <2>2, <3>1, CallTypes DEF Op
    <3>3. Loaded(p)
      BY <2>2, <3>2 DEF IInv, Meant
    <3> QED
      BY <1>1, <2>1, <3>2, <3>3
  <2>3. CASE active'[k].plugin \in Plugins /\ Loaded(active'[k].plugin)
    BY <1>1, <2>1, <2>3
  <2> QED
    BY <1>3, <2>2, <2>3 DEF Op
<1> QED
  BY <1>2, <1>3 DEF Meant

LEMMA PopFacts ==
  ASSUME Typed, Busy, Pops
  PROVE  /\ Depth' \in Nat /\ Depth' = Depth - 1 /\ active' \in Seq(Calls) /\ Depth \in Nat
         /\ \A k \in 1 .. Depth' : k \in 1 .. Depth /\ k # Depth /\ active'[k] = active[k]
         /\ \A k \in 1 .. Depth : k # Depth => k \in 1 .. Depth' /\ active'[k] = active[k]
<1>1. Depth \in Nat /\ Depth # 0 /\ Depth' = Depth - 1 /\ active' \in Seq(Calls)
  BY Stacks DEF Pops
<1>2. \A k \in 1 .. Depth' : k \in 1 .. Depth - 1 /\ k \in 1 .. Depth /\ k # Depth
  BY <1>1
<1>3. \A k \in 1 .. Depth : k # Depth => k \in 1 .. Depth - 1
  BY <1>1
<1> QED
  BY <1>1, <1>2, <1>3 DEF Pops, Below

LEMMA SwapFacts ==
  ASSUME Typed, Busy, NEW c, NEW d, Swaps(c) \/ SwapsPushes(c, d)
  PROVE  /\ Depth' \in Nat /\ Depth \in Nat /\ active' \in Seq(Calls)
         /\ Depth \in 1 .. Depth /\ Depth \in 1 .. Depth' /\ active'[Depth] = c
         /\ Swaps(c) => Depth' = Depth
         /\ SwapsPushes(c, d) =>
              Depth' = Depth + 1 /\ Depth + 1 \in 1 .. Depth' /\ active'[Depth + 1] = d
         /\ \A k \in 1 .. Depth' :
              \/ k \in 1 .. Depth /\ k # Depth /\ active'[k] = active[k]
              \/ k = Depth /\ active'[k] = c
              \/ SwapsPushes(c, d) /\ k = Depth + 1 /\ active'[k] = d
         /\ \A k \in 1 .. Depth : k # Depth => k \in 1 .. Depth' /\ active'[k] = active[k]
<1>1. Depth \in Nat /\ Depth # 0 /\ active' \in Seq(Calls) /\ active'[Depth] = c /\ Below
  BY Stacks DEF Swaps, SwapsPushes
<1>2. \A k \in 1 .. Depth : k # Depth => k \in 1 .. Depth - 1
  BY <1>1
<1>3. CASE Swaps(c) /\ ~SwapsPushes(c, d)
  BY <1>1, <1>2, <1>3 DEF Swaps, Below
<1>4. CASE SwapsPushes(c, d)
  <2>1. Depth' = Depth + 1 /\ active'[Depth + 1] = d
    BY <1>4 DEF SwapsPushes
  <2>2. \A k \in 1 .. Depth' : k = Depth + 1 \/ k \in 1 .. Depth
    BY <1>1, <2>1
  <2>3. Depth \in 1 .. Depth' /\ Depth + 1 \in 1 .. Depth' /\ Depth' # Depth /\ \A k \in 1 .. Depth : k \in 1 .. Depth'
    BY <1>1, <2>1
  <2>4. ~Swaps(c)
    BY <2>3 DEF Swaps
  <2>5. Depth \in 1 .. Depth
    BY <1>1
  <2>6. Depth' \in Nat
    BY <1>1, <2>1
  <2> QED
    BY <1>1, <1>2, <1>4, <2>1, <2>2, <2>3, <2>4, <2>5, <2>6 DEF Below
<1> QED
  BY <1>3, <1>4

LEMMA RegistrationDoneKeeps ==
  ASSUME IInv, RegistrationDone, UNCHANGED pluginVars
  PROVE  IInv' /\ Onward
<1>1. /\ Busy /\ Op(Depth) = "registered" /\ Return
      /\ UNCHANGED <<contexts, listeners, interfaces, inited, cached, pluginStates, agenda, steps>>
  BY Stacks DEF RegistrationDone, Goes, IInv, Op, pluginVars
<1>2. /\ Depth' \in Nat /\ active' \in Seq(Calls)
      /\ \A k \in 1 .. Depth' : k \in 1 .. Depth /\ active'[k] = active[k]
  BY <1>1, Stacks, PopFacts DEF IInv
<1>3. \A k \in 1 .. Depth' : Op(k)' \in {"registered", "init"}
  BY <1>1, <1>2, OneWay DEF Op
<1>4. Phases' /\ Leaving'
  BY <1>3 DEF Phases, Leaving
<1>5. Meant'
  <2>1. \A k \in 1 .. Depth : Op(k) = "registered" => active[k].impl \in interfaces'
    BY <1>1 DEF IInv, Meant
  <2> QED
    BY <1>2, <2>1, CallsMeant DEF Op
<1>6. Typed' /\ Sequenced' /\ Living' /\ Backed'
  BY <1>1, <1>2 DEF IInv, Typed, Sequenced, Living, Backed, Loaded, Created, Pending, Has, Available, Registered
<1>7. Onward
  <2>1. AllListeners \subseteq active[Depth].called
    BY <1>1, Stacks DEF RegistrationDone, Uncalled, IInv
  <2>2. \A p \in Plugins : /\ Missed(p) => ~ForExecutor(active[Depth], p)
                           /\ Unheld(p) => ~ForHolder(active[Depth], p)
    BY <1>1, <2>1, Lives DEF Missed, Unheld, ForExecutor, ForHolder, Op
  <2>3. \A p \in Plugins : (Missed(p)' <=> Missed(p)) /\ (Unheld(p)' <=> Unheld(p))
    BY <1>1, SameNeeds
  <2>4. \A k \in 1 .. Depth : k # Depth => k \in 1 .. Depth' /\ active'[k] = active[k]
    BY <1>1, Stacks, PopFacts DEF IInv
  <2>5. (Asked => Asked') /\ (Answered => Answered')
    <3>1. \A p \in Plugins : Missed(p) =>
            \A k \in 1 .. Depth : ForExecutor(active[k], p) =>
              \E m \in 1 .. Depth' : ForExecutor(active'[m], p)
      BY <2>2, <2>4
    <3>2. \A p \in Plugins : Unheld(p) =>
            \A k \in 1 .. Depth : ForHolder(active[k], p) =>
              \E m \in 1 .. Depth' : ForHolder(active'[m], p)
      BY <2>2, <2>4
    <3> QED
      BY <2>3, <3>1, <3>2, CallsOnward
  <2> QED
    BY <1>3, <2>5, NoFini DEF Onward, Served
<1> QED
  BY <1>4, <1>5, <1>6, <1>7 DEF IInv

LEMMA DeregistrationDoneKeeps ==
  ASSUME IInv, DeregistrationDone, UNCHANGED pluginVars
  PROVE  IInv' /\ Onward
<1>1. PICK i : i = Innermost.impl
  OBVIOUS
<1>2. /\ Busy /\ Op(Depth) = "deregistered" /\ Return /\ active[Depth].left = {}
      /\ active[Depth].impl = i /\ i \in Implementations /\ Depth \in 1 .. Depth
      /\ interfaces' = interfaces \ {i}
      /\ UNCHANGED <<contexts, listeners, inited, cached, pluginStates, agenda, steps>>
  BY <1>1, Stacks, CallTypes DEF DeregistrationDone, Goes, IInv, Op, pluginVars
<1>3. /\ Depth' \in Nat /\ active' \in Seq(Calls) /\ Depth \in Nat /\ Depth' = Depth - 1
      /\ \A k \in 1 .. Depth' : k \in 1 .. Depth /\ k # Depth /\ active'[k] = active[k]
  BY <1>2, Stacks, PopFacts DEF IInv
<1>4. \A k \in 1 .. Depth : Op(k) \in {"deregistered", "fini"}
  BY <1>2, OneWay
<1>5. \A k \in 1 .. Depth' : Op(k)' \in {"deregistered", "fini"}
  BY <1>3, <1>4 DEF Op
<1>6. Phases' /\ Meant'
  BY <1>5 DEF Phases, Meant
<1>7. \A p \in Plugins : (inited[p] => Face[i] \notin Needs[p]) /\ cached[p] # i
  <2>1. \A m \in Depth + 1 .. Depth : FALSE
    BY <1>3
  <2>2. \A p \in Plugins : Told(Depth, p)
    BY <1>2 DEF IInv, Leaving
  <2> QED
    BY <1>2, <2>1, <2>2 DEF Told
<1>8. Backed'
  <2>1. \A face : face # Face[i] => Registered(face)' = Registered(face)
    BY <1>2 DEF Registered
  <2>2. \A face : \A j : j # i => (j \in Registered(face)' <=> j \in Registered(face))
    BY <1>2 DEF Registered
  <2>3. ASSUME NEW p \in Plugins PROVE inited[p] => Has(p, "executor")' /\ Available(p)'
    BY <1>2, <1>7, <2>1 DEF IInv, Backed, Has, Available
  <2>4. ASSUME NEW p \in Plugins PROVE cached[p] # Null => Has(p, "holder")' /\ cached[p] \in Registered(Wants[p])'
    BY <1>2, <1>7, <2>2 DEF IInv, Backed, Has
  <2> QED
    BY <1>2, <2>3, <2>4 DEF Backed
<1>9. Typed' /\ Sequenced' /\ Living'
  <2>1. \A j \in interfaces : Provider[j] \in Plugins
    BY ContextAssumption DEF IInv, Typed
  <2>2. Typed' /\ Sequenced' /\ \A p \in Plugins : (Loaded(p)' <=> Loaded(p)) /\ (Created(p)' <=> Created(p))
    BY <1>2, <1>3 DEF IInv, Typed, Sequenced, Loaded, Created, Pending
  <2> QED
    BY <1>2, <2>1, <2>2 DEF IInv, Living
<1>10. Leaving'
  <2> SUFFICES ASSUME NEW k \in 1 .. Depth', Op(k)' = "deregistered", NEW p \in Plugins
               PROVE  Told(k, p)'
    BY DEF Leaving
  <2>1. k \in 1 .. Depth /\ active'[k] = active[k] /\ Told(k, p)
    BY <1>3 DEF IInv, Leaving, Op
  <2>2. ASSUME NEW m \in k + 1 .. Depth, active[m] = FiniCall(p)
        PROVE  m \in k + 1 .. Depth' /\ active'[m] = FiniCall(p)
    <3>1. m # Depth
      BY <1>2, <2>2 DEF Op, FiniCall
    <3>2. m \in k + 1 .. Depth' /\ m \in 1 .. Depth'
      BY <1>3, <3>1
    <3> QED
      BY <1>3, <2>2, <3>2
  <2> QED
    BY <1>2, <2>1, <2>2 DEF Told
<1>11. Onward
  <2>1. \A k \in 1 .. Depth : k # Depth => k \in 1 .. Depth' /\ active'[k] = active[k]
    BY <1>2, Stacks, PopFacts DEF IInv
  <2>2. \A face : Registered(face)' \subseteq Registered(face)
    BY <1>2 DEF Registered
  <2>3. \A p \in Plugins : (Missed(p)' => Missed(p)) /\ (Unheld(p)' => Unheld(p))
    BY <1>2, <2>2 DEF Missed, Unheld, Has, Available
  <2>4. ASSUME Unique PROVE Registered(Face[i])' = {}
    BY <1>2, <2>4 DEF Unique, Registered, IInv, Typed
  <2>5. ASSUME Unique, NEW p \in Plugins
        PROVE  /\ Missed(p)' => ~ForExecutor(active[Depth], p)
               /\ Unheld(p)' => ~ForHolder(active[Depth], p)
    BY <1>2, <2>4, <2>5 DEF Missed, Unheld, Available, ForExecutor, ForHolder, Op
  <2>6. ASSUME Unique PROVE (Asked => Asked') /\ (Answered => Answered')
    <3>1. \A p \in Plugins : Missed(p)' =>
            \A k \in 1 .. Depth : ForExecutor(active[k], p) =>
              \E m \in 1 .. Depth' : ForExecutor(active'[m], p)
      BY <2>1, <2>5, <2>6
    <3>2. \A p \in Plugins : Unheld(p)' =>
            \A k \in 1 .. Depth : ForHolder(active[k], p) =>
              \E m \in 1 .. Depth' : ForHolder(active'[m], p)
      BY <2>1, <2>5, <2>6
    <3> QED
      BY <2>3, <3>1, <3>2, CallsOnward
  <2>7. Finalised => Finalised'
    <3>1. \A k \in 1 .. Depth' : k - 1 \in 1 .. Depth =>
            k - 1 \in 1 .. Depth' /\ active'[k - 1] = active[k - 1]
      <4>1. \A k \in 1 .. Depth' : k - 1 # Depth
        BY <1>3
      <4> QED
        BY <2>1, <4>1
    <3> QED
      BY <1>3, <3>1, FinalisedKept
  <2> QED
    BY <2>6, <2>7 DEF Onward, Served
<1> QED
  BY <1>6, <1>8, <1>9, <1>10, <1>11 DEF IInv

\* The next listener of a notification.
LEMMA NextListener ==
  ASSUME IInv, NEW S, NEW l \in NextOf(S),
         S = AllListeners \ Innermost.called \/ (Busy /\ Op(Depth) = "deregistered" /\ S = active[Depth].left)
  PROVE  /\ l \in S /\ l \in Listeners /\ l[1] \in Plugins /\ l = <<l[1], l[2]>>
         /\ l \in AllListeners => Contains(contexts, l[1]) /\ Loaded(l[1]) /\ Has(l[1], l[2])
<1>1. l \in S
  BY DEF NextOf
<1>2. S \subseteq Listeners
  BY Stacks, CallTypes DEF AllListeners, IInv, Op
<1>3. l \in Listeners /\ l[1] \in Plugins /\ l = <<l[1], l[2]>>
  BY <1>1, <1>2 DEF Listeners
<1> QED
  BY <1>1, <1>3 DEF AllListeners, IInv, Living

LEMMA HolderRegisteredKeeps ==
  ASSUME IInv, HolderRegistered, UNCHANGED pluginVars
  PROVE  IInv' /\ Onward
<1>1. /\ Busy /\ Op(Depth) = "registered" /\ Innermost = active[Depth] /\ Depth \in 1 .. Depth
      /\ UNCHANGED <<contexts, listeners, interfaces, inited, pluginStates, agenda, steps>>
  BY Stacks DEF HolderRegistered, Goes, IInv, Op, pluginVars
<1>2. PICK l \in NextOf(Uncalled) :
        /\ l[2] = "holder"
        /\ cached' = [cached EXCEPT ![l[1]] =
                        IF Wants[l[1]] = Face[Innermost.impl] THEN Innermost.impl ELSE @]
        /\ active' = Append(Front(active), CalledOne(l))
  BY DEF HolderRegistered
<1>3. /\ l \in Listeners /\ l \in AllListeners /\ l[1] \in Plugins /\ Has(l[1], "holder")
  BY <1>2, NextListener DEF Uncalled
<1>4. /\ CalledOne(l) \in Calls /\ CalledOne(l).op = "registered" /\ CalledOne(l).impl = active[Depth].impl
  BY <1>1, <1>3, TakenTypes DEF IInv, Op
<1>5. Swaps(CalledOne(l))
  BY <1>1, <1>2, <1>4, Stacks DEF IInv
<1>6. /\ Depth' = Depth /\ Depth' \in Nat /\ active' \in Seq(Calls)
      /\ \A k \in 1 .. Depth' : \/ k \in 1 .. Depth /\ active'[k] = active[k]
                                \/ k = Depth /\ active'[k] = CalledOne(l)
  BY <1>1, <1>5, SwapFacts DEF IInv
<1>7. \A k \in 1 .. Depth' : Op(k)' \in {"registered", "init"}
  BY <1>1, <1>4, <1>6, OneWay DEF Op
<1>8. Phases' /\ Leaving'
  BY <1>7 DEF Phases, Leaving
<1>9. Meant'
  <2>1. \A k \in 1 .. Depth : Op(k) = "registered" => active[k].impl \in interfaces'
    BY <1>1 DEF IInv, Meant
  <2> QED
    BY <1>1, <1>4, <1>6, <2>1, CallsMeant DEF Op
<1>10. active[Depth].impl \in interfaces /\ active[Depth].impl \in Implementations
  BY <1>1 DEF IInv, Meant, Typed
<1>11. Typed' /\ Sequenced' /\ Living'
  BY <1>1, <1>2, <1>3, <1>6, <1>10 DEF IInv, Typed, Sequenced, Living, Loaded, Created, Pending
<1>12. Backed'
  <2>1. cached'[l[1]] = IF Wants[l[1]] = Face[active[Depth].impl] THEN active[Depth].impl ELSE cached[l[1]]
    BY <1>1, <1>2, <1>3 DEF IInv, Typed
  <2>2. \A p \in Plugins : p # l[1] => cached'[p] = cached[p]
    BY <1>2 DEF IInv, Typed
  <2> QED
    BY <1>1, <1>3, <1>10, <2>1, <2>2 DEF IInv, Backed, Has, Available, Registered
<1>13. Onward
  <2>1. /\ Depth \in 1 .. Depth' /\ active'[Depth] = CalledOne(l)
        /\ \A k \in 1 .. Depth : k # Depth => k \in 1 .. Depth' /\ active'[k] = active[k]
    BY <1>1, <1>5, SwapFacts DEF IInv
  <2>2. CalledOne(l).called = active[Depth].called \cup {l} /\ l = <<l[1], "holder">>
    BY <1>1, <1>2, <1>3, TakenTypes DEF IInv, Op, Listeners
  <2>3. \A p \in Plugins : ForExecutor(active[Depth], p) => ForExecutor(CalledOne(l), p)
    BY <1>1, <1>4, <2>2 DEF ForExecutor, Op
  <2>4. \A p \in Plugins : p # l[1] /\ ForHolder(active[Depth], p) => ForHolder(CalledOne(l), p)
    BY <1>1, <1>4, <2>2 DEF ForHolder, Op
  <2>5. \A p \in Plugins : Missed(p)' <=> Missed(p)
    BY <1>1 DEF Missed, Has, Available, Registered
  <2>6. cached'[l[1]] = IF Wants[l[1]] = Face[active[Depth].impl] THEN active[Depth].impl ELSE cached[l[1]]
    BY <1>1, <1>2, <1>3 DEF IInv, Typed
  <2>7. \A p \in Plugins : p # l[1] => cached'[p] = cached[p]
    BY <1>2 DEF IInv, Typed
  <2>8. ASSUME NEW p \in Plugins, Unheld(p)'
        PROVE  Unheld(p) /\ (ForHolder(active[Depth], p) => ForHolder(CalledOne(l), p))
    <3>1. Unheld(p) /\ (p = l[1] => Wants[p] # Face[active[Depth].impl])
      BY <1>1, <1>10, <2>6, <2>7, <2>8, ContextAssumption DEF Unheld, Has, Registered
    <3> QED
      BY <2>4, <3>1 DEF ForHolder
  <2>9. (Asked => Asked') /\ (Answered => Answered')
    <3>1. \A p \in Plugins : \A k \in 1 .. Depth : ForExecutor(active[k], p) =>
            \E m \in 1 .. Depth' : ForExecutor(active'[m], p)
      BY <2>1, <2>3
    <3>2. \A p \in Plugins : Unheld(p)' =>
            \A k \in 1 .. Depth : ForHolder(active[k], p) =>
              \E m \in 1 .. Depth' : ForHolder(active'[m], p)
      BY <2>1, <2>8
    <3> QED
      BY <2>5, <2>8, <3>1, <3>2, CallsOnward
  <2> QED
    BY <1>7, <2>9, NoFini DEF Onward, Served
<1> QED
  BY <1>8, <1>9, <1>11, <1>12, <1>13 DEF IInv

LEMMA HolderDeregisteredKeeps ==
  ASSUME IInv, HolderDeregistered, UNCHANGED pluginVars
  PROVE  IInv' /\ Onward
<1>1. /\ Busy /\ Op(Depth) = "deregistered" /\ Innermost = active[Depth] /\ Depth \in 1 .. Depth
      /\ UNCHANGED <<contexts, listeners, interfaces, inited, pluginStates, agenda, steps>>
  BY Stacks DEF HolderDeregistered, Goes, IInv, Op, pluginVars
<1>2. PICK l \in NextOf(Innermost.left) :
        /\ l[2] = "holder"
        /\ cached' = [cached EXCEPT ![l[1]] = IF @ = Innermost.impl THEN Null ELSE @]
        /\ active' = Append(Front(active), LeftOne(l))
  BY DEF HolderDeregistered
<1>3. /\ l \in Listeners /\ l[1] \in Plugins /\ l = <<l[1], "holder">>
  BY <1>1, <1>2, NextListener
<1>4. /\ LeftOne(l) \in Calls /\ LeftOne(l).op = "deregistered" /\ LeftOne(l).impl = active[Depth].impl
      /\ LeftOne(l).left = active[Depth].left \ {l}
  BY <1>1, <1>3, TakenTypes DEF IInv, Op
<1>5. Swaps(LeftOne(l))
  BY <1>1, <1>2, <1>4, Stacks DEF IInv
<1>6. /\ Depth' = Depth /\ Depth' \in Nat /\ active' \in Seq(Calls)
      /\ \A k \in 1 .. Depth' : \/ k \in 1 .. Depth /\ k # Depth /\ active'[k] = active[k]
                                \/ k = Depth /\ active'[k] = LeftOne(l)
  BY <1>1, <1>5, SwapFacts DEF IInv
<1>7. \A k \in 1 .. Depth' : Op(k)' \in {"deregistered", "fini"}
  BY <1>1, <1>4, <1>6, OneWay DEF Op
<1>8. Phases' /\ Meant'
  BY <1>7 DEF Phases, Meant
<1>9. active[Depth].impl \in Implementations
  BY <1>1, Stacks, CallTypes DEF IInv, Op
<1>10. /\ cached'[l[1]] = IF cached[l[1]] = active[Depth].impl THEN Null ELSE cached[l[1]]
       /\ \A p \in Plugins : p # l[1] => cached'[p] = cached[p]
  BY <1>1, <1>2, <1>3 DEF IInv, Typed
<1>11. Typed' /\ Sequenced' /\ Living'
  BY <1>1, <1>2, <1>3, <1>6 DEF IInv, Typed, Sequenced, Living, Loaded, Created, Pending
<1>12. Backed'
  BY <1>1, <1>10 DEF IInv, Backed, Has, Available, Registered
<1>13. Leaving'
  <2> SUFFICES ASSUME NEW k \in 1 .. Depth', Op(k)' = "deregistered", NEW p \in Plugins
               PROVE  Told(k, p)'
    BY DEF Leaving
  <2>1. ASSUME NEW j \in 1 .. Depth, NEW m \in j + 1 .. Depth, active[m] = FiniCall(p)
        PROVE  m \in j + 1 .. Depth' /\ active'[m] = FiniCall(p)
    <3>1. m # Depth
      BY <1>1, <2>1 DEF Op, FiniCall
    <3>2. m \in j + 1 .. Depth' /\ m \in 1 .. Depth'
      BY <1>6, <2>1
    <3> QED
      BY <1>6, <2>1, <3>1, <3>2
  <2>2. CASE k \in 1 .. Depth /\ k # Depth /\ active'[k] = active[k]
    <3>1. Told(k, p) /\ active[k] \in Calls /\ Op(k) = "deregistered"
      BY <2>2, Stacks DEF IInv, Leaving, Op
    <3>2. cached'[p] = active[k].impl => cached[p] = active[k].impl
      BY <1>10, <3>1, CallTypes, ContextAssumption DEF Op
    <3> QED
      BY <1>1, <2>1, <2>2, <3>1, <3>2 DEF Told
  <2>3. CASE k = Depth /\ active'[k] = LeftOne(l)
    <3>1. Told(Depth, p)
      BY <1>1 DEF IInv, Leaving
    <3>2. cached'[p] = active[Depth].impl => cached[p] = active[Depth].impl /\ p # l[1]
      BY <1>9, <1>10, ContextAssumption
    <3>3. <<p, "executor">> # l /\ (p # l[1] => <<p, "holder">> # l)
      BY <1>3
    <3> QED
      BY <1>1, <1>4, <2>1, <2>3, <3>1, <3>2, <3>3 DEF Told
  <2> QED
    BY <1>6, <2>2, <2>3
<1>14. Onward
  <2>1. /\ Depth \in 1 .. Depth' /\ active'[Depth] = LeftOne(l)
        /\ \A k \in 1 .. Depth : k # Depth => k \in 1 .. Depth' /\ active'[k] = active[k]
    BY <1>1, <1>5, SwapFacts DEF IInv
  <2>2. \A p \in Plugins : /\ ForExecutor(active[Depth], p) => ForExecutor(LeftOne(l), p)
                           /\ ForHolder(active[Depth], p) => ForHolder(LeftOne(l), p)
    BY <1>1, <1>4 DEF ForExecutor, ForHolder, Op
  <2>3. \A p \in Plugins : Missed(p)' <=> Missed(p)
    BY <1>1 DEF Missed, Has, Available, Registered
  <2>4. ASSUME NEW p \in Plugins, Unheld(p)' PROVE Unheld(p) \/ ForHolder(LeftOne(l), p)
    <3>1. CASE cached[p] = Null
      BY <1>1, <2>4, <3>1 DEF Unheld, Has, Registered
    <3>2. CASE cached[p] # Null
      <4>1. cached[p] = active[Depth].impl
        BY <1>10, <2>4, <3>2 DEF Unheld
      <4>2. Face[active[Depth].impl] = Wants[p]
        BY <3>2, <4>1 DEF IInv, Backed, Registered
      <4> QED
        BY <1>4, <4>2 DEF ForHolder
    <3> QED
      BY <3>1, <3>2
  <2>5. (Asked => Asked') /\ (Answered => Answered')
    <3>1. \A p \in Plugins : \A k \in 1 .. Depth :
            /\ ForExecutor(active[k], p) => \E m \in 1 .. Depth' : ForExecutor(active'[m], p)
            /\ ForHolder(active[k], p) => \E m \in 1 .. Depth' : ForHolder(active'[m], p)
      BY <2>1, <2>2
    <3> QED
      BY <2>1, <2>3, <2>4, <3>1, CallsOnward
  <2>6. Finalised => Finalised'
    <3>1. \A k \in 1 .. Depth' : Op(k)' = "fini" => k \in 1 .. Depth /\ active'[k] = active[k]
      BY <1>4, <1>6 DEF Op
    <3>2. \A k \in 1 .. Depth : /\ k \in 1 .. Depth' /\ active'[k].op = active[k].op
                                /\ active[k].op = "deregistered" => active'[k].impl = active[k].impl
      BY <1>1, <1>4, <2>1 DEF Op
    <3> QED
      BY <3>1, <3>2, FinalisedKept
  <2> QED
    BY <2>5, <2>6 DEF Onward, Served
<1> QED
  BY <1>8, <1>11, <1>12, <1>13, <1>14 DEF IInv

LEMMA ExecutorDeregisteredKeeps ==
  ASSUME IInv, ExecutorDeregistered, UNCHANGED pluginVars
  PROVE  IInv' /\ Onward
<1>1. /\ Busy /\ Op(Depth) = "deregistered" /\ Innermost = active[Depth] /\ Depth \in 1 .. Depth
      /\ UNCHANGED <<contexts, listeners, interfaces, inited, cached, pluginStates, agenda, steps>>
  BY Stacks DEF ExecutorDeregistered, Goes, IInv, Op, pluginVars
<1>2. PICK l \in NextOf(Innermost.left) :
        /\ l[2] = "executor"
        /\ \/ /\ inited[l[1]] /\ Face[Innermost.impl] \in Needs[l[1]]
              /\ active' = Front(active) \o <<LeftOne(l), FiniCall(l[1])>>
           \/ /\ ~(inited[l[1]] /\ Face[Innermost.impl] \in Needs[l[1]])
              /\ active' = Append(Front(active), LeftOne(l))
  BY DEF ExecutorDeregistered
<1> DEFINE c == LeftOne(l)
           d == FiniCall(l[1])
<1>3. /\ l \in Listeners /\ l[1] \in Plugins /\ l = <<l[1], "executor">>
  BY <1>1, <1>2, NextListener
<1>4. /\ c \in Calls /\ c.op = "deregistered" /\ c.impl = active[Depth].impl
      /\ c.left = active[Depth].left \ {l}
  BY <1>1, <1>3, TakenTypes DEF IInv, Op
<1>5. d \in Calls /\ d.op = "fini"
  BY <1>3, CallTypes DEF FiniCall
<1>6. \/ inited[l[1]] /\ Face[active[Depth].impl] \in Needs[l[1]] /\ SwapsPushes(c, d)
      \/ ~(inited[l[1]] /\ Face[active[Depth].impl] \in Needs[l[1]]) /\ Swaps(c)
  BY <1>1, <1>2, <1>4, <1>5, Stacks DEF IInv
<1> HIDE DEF c
<1>7. /\ Depth' \in Nat /\ Depth \in Nat /\ active' \in Seq(Calls) /\ (Depth' = Depth \/ Depth' = Depth + 1)
      /\ SwapsPushes(c, d) => Depth' = Depth + 1 /\ Depth + 1 \in 1 .. Depth' /\ active'[Depth + 1] = d
      /\ \A k \in 1 .. Depth' : \/ k \in 1 .. Depth /\ k # Depth /\ active'[k] = active[k]
                                \/ k = Depth /\ active'[k] = c
                                \/ active'[k] = d
  BY <1>1, <1>6, SwapFacts DEF IInv
<1>8. \A k \in 1 .. Depth : k # Depth => k \in 1 .. Depth' /\ active'[k] = active[k]
  BY <1>1, <1>6, SwapFacts DEF IInv
<1>9. \A k \in 1 .. Depth' : Op(k)' \in {"deregistered", "fini"}
  BY <1>1, <1>4, <1>5, <1>7, OneWay DEF Op
<1>10. Phases' /\ Meant'
  BY <1>9 DEF Phases, Meant
<1>11. Typed' /\ Sequenced' /\ Living' /\ Backed'
  BY <1>1, <1>7 DEF IInv, Typed, Sequenced, Living, Backed, Loaded, Created, Pending, Has, Available, Registered
<1>12. Leaving'
  <2> SUFFICES ASSUME NEW k \in 1 .. Depth', Op(k)' = "deregistered", NEW p \in Plugins
               PROVE  Told(k, p)'
    BY DEF Leaving
  <2>1. ASSUME NEW j \in 1 .. Depth, NEW m \in j + 1 .. Depth, active[m] = FiniCall(p)
        PROVE  m \in j + 1 .. Depth' /\ active'[m] = FiniCall(p)
    <3>1. m # Depth
      BY <1>1, <2>1 DEF Op, FiniCall
    <3>2. m \in j + 1 .. Depth' /\ m \in 1 .. Depth
      BY <1>7, <2>1
    <3> QED
      BY <1>8, <2>1, <3>1, <3>2
  <2>2. CASE k \in 1 .. Depth /\ k # Depth /\ active'[k] = active[k]
    <3>1. Told(k, p)
      BY <2>2 DEF IInv, Leaving, Op
    <3> QED
      BY <1>1, <2>1, <2>2, <3>1 DEF Told
  <2>3. CASE k = Depth /\ active'[k] = c
    <3>1. Told(Depth, p)
      BY <1>1 DEF IInv, Leaving
    <3>2. <<p, "holder">> # l /\ (p # l[1] => <<p, "executor">> # l)
      BY <1>3
    <3>3. CASE p # l[1]
      BY <1>1, <1>4, <2>1, <2>3, <3>1, <3>2, <3>3 DEF Told
    <3>4. CASE p = l[1] /\ SwapsPushes(c, d)
      <4>1. Depth + 1 \in Depth + 1 .. Depth' /\ active'[Depth + 1] = FiniCall(p)
        BY <1>7, <3>4
      <4> QED
        BY <1>1, <1>4, <2>3, <3>1, <3>2, <4>1 DEF Told
    <3>5. CASE p = l[1] /\ ~(inited[p] /\ Face[active[Depth].impl] \in Needs[p])
      BY <1>1, <1>4, <2>3, <3>1, <3>2, <3>5 DEF Told
    <3> QED
      BY <1>6, <3>3, <3>4, <3>5
  <2>4. CASE active'[k] = d
    BY <1>5, <2>4 DEF Op
  <2> QED
    BY <1>7, <2>2, <2>3, <2>4
<1>13. Onward
  <2>1. Depth \in 1 .. Depth' /\ active'[Depth] = c
    BY <1>1, <1>6, SwapFacts DEF IInv
  <2>2. \A p \in Plugins : /\ ForExecutor(active[Depth], p) => ForExecutor(c, p)
                           /\ ForHolder(active[Depth], p) => ForHolder(c, p)
    BY <1>1, <1>4 DEF ForExecutor, ForHolder, Op
  <2>3. \A p \in Plugins : (Missed(p)' <=> Missed(p)) /\ (Unheld(p)' <=> Unheld(p))
    BY <1>1, SameNeeds
  <2>4. (Asked => Asked') /\ (Answered => Answered')
    <3>1. \A p \in Plugins : \A k \in 1 .. Depth :
            /\ ForExecutor(active[k], p) => \E m \in 1 .. Depth' : ForExecutor(active'[m], p)
            /\ ForHolder(active[k], p) => \E m \in 1 .. Depth' : ForHolder(active'[m], p)
      BY <1>8, <2>1, <2>2
    <3> QED
      BY <2>3, <3>1, CallsOnward
  <2>5. Finalised => Finalised'
    <3>1. \A k \in 1 .. Depth : /\ k \in 1 .. Depth' /\ active'[k].op = active[k].op
                                /\ active[k].op = "deregistered" => active'[k].impl = active[k].impl
      BY <1>1, <1>4, <1>8, <2>1 DEF Op
    <3>2. ASSUME NEW k \in 1 .. Depth', Op(k)' = "fini"
          PROVE  \/ k \in 1 .. Depth /\ active'[k] = active[k]
                 \/ SwapsPushes(c, d) /\ k = Depth + 1 /\ active'[k] = d
      <4>1. \/ k \in 1 .. Depth /\ k # Depth /\ active'[k] = active[k]
            \/ k = Depth /\ active'[k] = c
            \/ SwapsPushes(c, d) /\ k = Depth + 1 /\ active'[k] = d
        BY <1>1, <1>6, SwapFacts DEF IInv
      <4> QED
        BY <1>4, <3>2, <4>1 DEF Op
    <3>3. SwapsPushes(c, d) => Face[c.impl] \in Needs[d.plugin]
      <4>1. SwapsPushes(c, d) => ~Swaps(c)
        BY <1>7 DEF Swaps, SwapsPushes
      <4> QED
        BY <1>4, <1>6, <4>1 DEF FiniCall
    <3>4. (Depth + 1) - 1 = Depth
      BY <1>7
    <3> HIDE DEF d
    <3>5. \A k \in 1 .. Depth' : Op(k)' = "fini" =>
            \/ /\ k \in 1 .. Depth /\ active'[k] = active[k]
               /\ k - 1 \in 1 .. Depth =>
                    /\ k - 1 \in 1 .. Depth' /\ active'[k - 1].op = active[k - 1].op
                    /\ active[k - 1].op = "deregistered" => active'[k - 1].impl = active[k - 1].impl
            \/ /\ k - 1 \in 1 .. Depth' /\ active'[k - 1].op = "deregistered"
               /\ Face[active'[k - 1].impl] \in Needs[active'[k].plugin]
      BY <1>4, <2>1, <3>1, <3>2, <3>3, <3>4
    <3> QED
      BY <3>5, FinalisedKept
  <2> QED
    BY <2>4, <2>5 DEF Onward, Served
<1> QED
  BY <1>10, <1>11, <1>12, <1>13 DEF IInv

LEMMA ExecutorRegisteredKeeps ==
  ASSUME IInv, ExecutorRegistered, UNCHANGED pluginVars
  PROVE  IInv' /\ Onward
<1>1. /\ Busy /\ Op(Depth) = "registered" /\ Innermost = active[Depth] /\ Depth \in 1 .. Depth
      /\ UNCHANGED <<contexts, interfaces, pluginStates, agenda, steps>>
  BY Stacks DEF ExecutorRegistered, Goes, IInv, Op, pluginVars
<1>2. PICK l \in NextOf(Uncalled) :
        /\ l[2] = "executor"
        /\ \/ /\ Executes(l[1]) /\ Execute(l[1])
              /\ active' = Front(active) \o <<CalledOne(l), InitCall(l[1])>>
           \/ /\ ~Executes(l[1])
              /\ active' = Append(Front(active), CalledOne(l))
              /\ UNCHANGED <<listeners, inited, cached>>
  BY DEF ExecutorRegistered
<1> DEFINE c == CalledOne(l)
           d == InitCall(l[1])
<1>3. /\ l \in Listeners /\ l \in AllListeners /\ l[1] \in Plugins /\ Has(l[1], "executor")
      /\ Loaded(l[1])
  BY <1>2, NextListener DEF Uncalled
<1>4. c \in Calls /\ c.op = "registered" /\ c.impl = active[Depth].impl
  BY <1>1, <1>3, TakenTypes DEF IInv, Op
<1>5. d \in Calls /\ d.op = "init" /\ d.plugin = l[1]
  BY <1>3, CallTypes DEF InitCall
<1>6. \/ Executes(l[1]) /\ Execute(l[1]) /\ SwapsPushes(c, d)
      \/ ~Executes(l[1]) /\ Swaps(c) /\ UNCHANGED <<listeners, inited, cached>>
  BY <1>1, <1>2, <1>4, <1>5, Stacks DEF IInv
<1> HIDE DEF c, d
<1>7. /\ Depth' \in Nat /\ active' \in Seq(Calls)
      /\ \A k \in 1 .. Depth' : \/ k \in 1 .. Depth /\ active'[k] = active[k]
                                \/ k = Depth /\ active'[k] = c
                                \/ active'[k] = d
  BY <1>1, <1>6, SwapFacts DEF IInv
<1>8. \A k \in 1 .. Depth' : Op(k)' \in {"registered", "init"}
  BY <1>1, <1>4, <1>5, <1>7, OneWay DEF Op
<1>9. Phases' /\ Leaving'
  BY <1>8 DEF Phases, Leaving
<1>10. Meant'
  <2>1. \A k \in 1 .. Depth : Op(k) = "registered" => active[k].impl \in interfaces'
    BY <1>1 DEF IInv, Meant
  <2> QED
    BY <1>1, <1>3, <1>4, <1>5, <1>7, <2>1, CallsMeant DEF Op
<1>11. /\ listeners' \in [Plugins -> Listened] /\ inited' \in [Plugins -> BOOLEAN]
       /\ cached' \in [Plugins -> Implementations \cup {Null}]
       /\ \A p \in Plugins : listeners'[p] # <<>> => listeners[p] # <<>>
       /\ \A p \in Plugins : /\ Has(p, "executor") => Has(p, "executor")'
                             /\ Has(p, "holder") => Has(p, "holder")'
       /\ \A p \in Plugins : inited'[p] => inited[p] \/ (p = l[1] /\ Available(p))
       /\ \A p \in Plugins : cached'[p] = cached[p]
            \/ (Has(p, "holder")' /\ (cached'[p] # Null => cached'[p] \in Registered(Wants[p])))
       /\ \A p \in Plugins : Has(p, "executor")' => Has(p, "executor")
       /\ \A p \in Plugins : p # l[1] => inited'[p] = inited[p]
       /\ ~inited'[l[1]] => ~Available(l[1])
       /\ \A p \in Plugins : \/ cached'[p] # Null \/ Registered(Wants[p]) = {}
                             \/ cached'[p] = cached[p] /\ (Has(p, "holder")' => Has(p, "holder"))
  <2>1. CASE ~Executes(l[1]) /\ UNCHANGED <<listeners, inited, cached>>
    BY <2>1 DEF IInv, Typed, Has, Executes
  <2>2. CASE Executes(l[1]) /\ Execute(l[1])
    <3>1. /\ inited' = [inited EXCEPT ![l[1]] = TRUE] /\ Available(l[1])
          /\ inited' \in [Plugins -> BOOLEAN]
          /\ \A p \in Plugins : inited'[p] => inited[p] \/ (p = l[1] /\ Available(p))
          /\ \A p \in Plugins : p # l[1] => inited'[p] = inited[p]
          /\ inited'[l[1]]
      BY <1>3, <2>2 DEF Executes, Execute, IInv, Typed
    <3>2. CASE UNCHANGED <<listeners, cached>>
      BY <3>1, <3>2 DEF IInv, Typed, Has
    <3>3. CASE /\ ~Has(l[1], "holder") /\ Holds(l[1])
               /\ listeners' = [listeners EXCEPT ![l[1]] = Append(@, "holder")]
      <4>1. PICK answer \in Implementations \cup {Null} :
              /\ cached' = [cached EXCEPT ![l[1]] = answer]
              /\ answer # Null => answer \in Registered(Wants[l[1]])
              /\ answer = Null => Registered(Wants[l[1]]) = {}
        BY <1>3, <3>3, AnswersRegistered
      <4>2. /\ cached'[l[1]] = answer /\ \A p \in Plugins : p # l[1] => cached'[p] = cached[p]
            /\ cached' \in [Plugins -> Implementations \cup {Null}]
        BY <1>3, <4>1 DEF IInv, Typed
      <4>3. listeners[l[1]] \in Listened /\ listeners[l[1]] = <<"executor">>
            /\ Append(listeners[l[1]], "holder") = <<"executor", "holder">>
        BY <1>3, <3>3, ListenedFacts DEF IInv, Typed, Has
      <4>4. /\ listeners' = [listeners EXCEPT ![l[1]] = <<"executor", "holder">>]
            /\ listeners'[l[1]] = <<"executor", "holder">>
            /\ \A p \in Plugins : p # l[1] => listeners'[p] = listeners[p]
            /\ listeners' \in [Plugins -> Listened]
        BY <1>3, <3>3, <4>3 DEF IInv, Typed, Listened
      <4>5. Contains(listeners'[l[1]], "executor") /\ Contains(listeners'[l[1]], "holder")
        BY <4>4, ListenedFacts DEF Listened
      <4>6. \A p \in Plugins : \A kind : Has(p, kind)' <=> Contains(listeners'[p], kind)
        BY DEF Has
      <4>7. listeners[l[1]] # <<>>
        BY <4>3
      <4>8. \A p \in Plugins : p # l[1] =>
              cached'[p] = cached[p] /\ \A kind : Has(p, kind)' <=> Has(p, kind)
        BY <4>2, <4>4, <4>6 DEF Has
      <4>9. cached'[l[1]] # Null \/ Registered(Wants[l[1]]) = {}
        BY <4>1, <4>2
      <4>10. \A p \in Plugins : Has(p, "executor")' => Has(p, "executor")
        BY <1>3, <4>8
      <4>11. \A p \in Plugins :
               \/ cached'[p] # Null \/ Registered(Wants[p]) = {}
               \/ cached'[p] = cached[p] /\ (Has(p, "holder")' => Has(p, "holder"))
        BY <4>8, <4>9
      <4>12. \A p \in Plugins : cached'[p] = cached[p]
               \/ (Has(p, "holder")' /\ (cached'[p] # Null => cached'[p] \in Registered(Wants[p])))
        BY <4>1, <4>2, <4>5, <4>6
      <4>13. \A p \in Plugins : /\ Has(p, "executor") => Has(p, "executor")'
                                /\ Has(p, "holder") => Has(p, "holder")'
        BY <4>5, <4>6, <4>8
      <4>14. \A p \in Plugins : listeners'[p] # <<>> => listeners[p] # <<>>
        BY <4>4, <4>7
      <4> QED
        BY <3>1, <4>2, <4>4, <4>10, <4>11, <4>12, <4>13, <4>14
    <3> QED
      BY <2>2, <3>2, <3>3 DEF Execute
  <2> QED
    BY <1>6, <2>1, <2>2
<1>12. Typed' /\ Sequenced'
  BY <1>1, <1>7, <1>11 DEF IInv, Typed, Sequenced, Pending
<1>13. Living'
  <2>1. \A i \in interfaces : Provider[i] \in Plugins
    BY ContextAssumption DEF IInv, Typed
  <2>2. \A p \in Plugins : (Loaded(p)' <=> Loaded(p)) /\ (Created(p)' <=> Created(p))
    BY <1>1 DEF Loaded, Created, Pending
  <2> QED
    BY <1>1, <1>11, <2>1, <2>2 DEF IInv, Living
<1>14. Backed'
  <2>1. \A face : Registered(face)' = Registered(face)
    BY <1>1 DEF Registered
  <2>2. \A p \in Plugins : Available(p)' <=> Available(p)
    BY <2>1 DEF Available
  <2>3. \A p \in Plugins : inited'[p] => Has(p, "executor")' /\ Available(p)'
    BY <1>3, <1>11, <2>2 DEF IInv, Backed
  <2>4. \A p \in Plugins : cached'[p] # Null => Has(p, "holder")' /\ cached'[p] \in Registered(Wants[p])
    BY <1>11 DEF IInv, Backed
  <2> QED
    BY <2>1, <2>3, <2>4 DEF Backed
<1>15. Onward
  <2>1. /\ Depth \in 1 .. Depth' /\ active'[Depth] = c
        /\ \A k \in 1 .. Depth : k # Depth => k \in 1 .. Depth' /\ active'[k] = active[k]
    BY <1>1, <1>6, SwapFacts DEF IInv
  <2>2. c.called = active[Depth].called \cup {l} /\ l = <<l[1], "executor">>
    BY <1>1, <1>2, <1>3, TakenTypes DEF IInv, Op, Listeners, c
  <2>3. \A p \in Plugins : p # l[1] /\ ForExecutor(active[Depth], p) => ForExecutor(c, p)
    BY <1>1, <1>4, <2>2 DEF ForExecutor, Op
  <2>4. \A p \in Plugins : ForHolder(active[Depth], p) => ForHolder(c, p)
    BY <1>1, <1>4, <2>2 DEF ForHolder, Op
  <2>5. \A face : Registered(face)' = Registered(face)
    BY <1>1 DEF Registered
  <2>6. \A p \in Plugins : Available(p)' <=> Available(p)
    BY <2>5 DEF Available
  <2>7. \A p \in Plugins : Missed(p)' => Missed(p) /\ p # l[1]
    BY <1>11, <2>6 DEF Missed
  <2>8. \A p \in Plugins : Unheld(p)' => Unheld(p)
    BY <1>11, <2>5 DEF Unheld
  <2>9. (Asked => Asked') /\ (Answered => Answered')
    <3>1. \A p \in Plugins : Missed(p)' =>
            \A k \in 1 .. Depth : ForExecutor(active[k], p) =>
              \E m \in 1 .. Depth' : ForExecutor(active'[m], p)
      BY <2>1, <2>3, <2>7
    <3>2. \A p \in Plugins : \A k \in 1 .. Depth : ForHolder(active[k], p) =>
            \E m \in 1 .. Depth' : ForHolder(active'[m], p)
      BY <2>1, <2>4
    <3> QED
      BY <2>7, <2>8, <3>1, <3>2, CallsOnward
  <2> QED
    BY <1>8, <2>9, NoFini DEF Onward, Served
<1> QED
  BY <1>9, <1>10, <1>12, <1>13, <1>14, <1>15 DEF IInv

LEMMA InitFunctionKeeps ==
  ASSUME IInv, InitFunction, UNCHANGED pluginVars
  PROVE  IInv' /\ Onward
<1>1. /\ Busy /\ Op(Depth) = "init" /\ Innermost = active[Depth] /\ Depth \in 1 .. Depth
      /\ UNCHANGED <<contexts, listeners, inited, cached>>
  BY Stacks DEF InitFunction, Goes, IInv, Op
<1>2. \A k \in 1 .. Depth : Op(k) \in {"registered", "init"}
  BY <1>1, OneWay
<1>3. CASE \E i \in ByCallback(Innermost.plugin) \ interfaces : registerInterface(i)
  <2>1. PICK i \in ByCallback(Innermost.plugin) : registerInterface(i)
    BY <1>3
  <2>2. i \in Implementations /\ Provider[i] = active[Depth].plugin
    BY <1>1 DEF ByCallback
  <2>3. Loaded(Provider[i])
    BY <1>1, <2>2 DEF IInv, Meant
  <2> QED
    BY <1>1, <1>2, <2>1, <2>2, <2>3, RegisterKeeps
<1>4. CASE Return /\ UNCHANGED interfaces
  <2>1. /\ Depth' \in Nat /\ active' \in Seq(Calls)
        /\ \A k \in 1 .. Depth' : k \in 1 .. Depth /\ active'[k] = active[k]
    BY <1>1, <1>4, Stacks, PopFacts DEF IInv
  <2>2. \A k \in 1 .. Depth' : Op(k)' \in {"registered", "init"}
    BY <1>2, <2>1 DEF Op
  <2>3. Phases' /\ Leaving'
    BY <2>2 DEF Phases, Leaving
  <2>4. Meant'
    <3>1. \A k \in 1 .. Depth : Op(k) = "registered" => active[k].impl \in interfaces'
      BY <1>4 DEF IInv, Meant
    <3> QED
      BY <2>1, <3>1, CallsMeant DEF Op
  <2>5. Typed' /\ Sequenced' /\ Living' /\ Backed'
    BY <1>1, <1>4, <2>1 DEF IInv, Typed, Sequenced, Living, Backed, Loaded, Created, Pending, Has, Available, Registered, pluginVars
  <2>6. Onward
    <3>1. \A k \in 1 .. Depth : k # Depth => k \in 1 .. Depth' /\ active'[k] = active[k]
      BY <1>1, <1>4, Stacks, PopFacts DEF IInv
    <3>2. \A p \in Plugins : ~ForExecutor(active[Depth], p) /\ ~ForHolder(active[Depth], p)
      BY <1>1 DEF ForExecutor, ForHolder, Op
    <3>3. \A p \in Plugins : (Missed(p)' <=> Missed(p)) /\ (Unheld(p)' <=> Unheld(p))
      BY <1>1, <1>4, SameNeeds
    <3>4. \A p \in Plugins : \A k \in 1 .. Depth :
            /\ ForExecutor(active[k], p) => \E m \in 1 .. Depth' : ForExecutor(active'[m], p)
            /\ ForHolder(active[k], p) => \E m \in 1 .. Depth' : ForHolder(active'[m], p)
      BY <3>1, <3>2
    <3>5. (Asked => Asked') /\ (Answered => Answered')
      BY <3>3, <3>4, CallsOnward
    <3> QED
      BY <2>2, <3>5, NoFini DEF Onward, Served
  <2> QED
    BY <2>3, <2>4, <2>5, <2>6 DEF IInv
<1> QED
  BY <1>3, <1>4 DEF InitFunction

LEMMA FiniFunctionKeeps ==
  ASSUME IInv, FiniFunction, UNCHANGED pluginVars
  PROVE  IInv' /\ Onward
<1>1. /\ Busy /\ Op(Depth) = "fini" /\ Innermost = active[Depth] /\ Depth \in 1 .. Depth
      /\ UNCHANGED <<contexts, listeners, cached>>
  BY Stacks DEF FiniFunction, Goes, IInv, Op
<1>2. \A k \in 1 .. Depth : Op(k) \in {"deregistered", "fini"}
  BY <1>1, OneWay
<1>3. CASE (\E i \in ByCallback(Innermost.plugin) \cap interfaces : deregisterInterface(i)) /\ UNCHANGED inited
  <2>1. PICK i \in ByCallback(Innermost.plugin) : deregisterInterface(i)
    BY <1>3
  <2>2. i \in Implementations
    BY DEF ByCallback
  <2> QED
    BY <1>1, <1>2, <1>3, <2>1, <2>2, DeregisterKeeps
<1>4. CASE Return /\ UNCHANGED interfaces /\ inited' = [inited EXCEPT ![Innermost.plugin] = FALSE]
  <2>1. /\ Depth' \in Nat /\ Depth \in Nat /\ Depth' = Depth - 1 /\ active' \in Seq(Calls)
        /\ \A k \in 1 .. Depth' : k \in 1 .. Depth /\ active'[k] = active[k]
    BY <1>1, <1>4, Stacks, PopFacts DEF IInv
  <2>2. \A k \in 1 .. Depth' : Op(k)' \in {"deregistered", "fini"}
    BY <1>2, <2>1 DEF Op
  <2>3. Phases' /\ Meant'
    BY <2>2 DEF Phases, Meant
  <2>4. PICK q \in Plugins : q = Innermost.plugin
    BY <1>1, Stacks, CallTypes DEF IInv, Op
  <2>5. inited' \in [Plugins -> BOOLEAN] /\ ~inited'[q] /\ \A p \in Plugins : p # q => inited'[p] = inited[p]
    BY <1>4, <2>4 DEF IInv, Typed
  <2>6. Typed' /\ Sequenced' /\ Living'
    BY <1>1, <1>4, <2>1, <2>5 DEF IInv, Typed, Sequenced, Living, Loaded, Created, Pending, pluginVars
  <2>7. Backed'
    BY <1>1, <1>4, <2>5 DEF IInv, Backed, Has, Available, Registered
  <2>8. Leaving'
    <3> SUFFICES ASSUME NEW k \in 1 .. Depth', Op(k)' = "deregistered", NEW p \in Plugins
                 PROVE  Told(k, p)'
      BY DEF Leaving
    <3>1. k \in 1 .. Depth /\ active'[k] = active[k] /\ Told(k, p)
      BY <2>1 DEF IInv, Leaving, Op
    <3>2. CASE p = q
      BY <1>1, <2>5, <3>1, <3>2 DEF Told
    <3>3. CASE p # q
      <4>1. ASSUME NEW m \in k + 1 .. Depth, active[m] = FiniCall(p)
            PROVE  m \in k + 1 .. Depth' /\ active'[m] = FiniCall(p)
        <5>1. m # Depth
          BY <1>1, <2>4, <3>3, <4>1 DEF FiniCall
        <5>2. m \in k + 1 .. Depth' /\ m \in 1 .. Depth'
          BY <2>1, <5>1
        <5> QED
          BY <2>1, <4>1, <5>2
      <4> QED
        BY <1>1, <2>5, <3>1, <3>3, <4>1 DEF Told
    <3> QED
      BY <3>2, <3>3
  <2>9. Onward
    <3>1. \A k \in 1 .. Depth : k # Depth => k \in 1 .. Depth' /\ active'[k] = active[k]
      BY <1>1, <1>4, Stacks, PopFacts DEF IInv
    <3>2. \A p \in Plugins : ~ForExecutor(active[Depth], p) /\ ~ForHolder(active[Depth], p)
      BY <1>1 DEF ForExecutor, ForHolder, Op
    <3>3. \A p \in Plugins : \A k \in 1 .. Depth :
            /\ ForExecutor(active[k], p) => \E m \in 1 .. Depth' : ForExecutor(active'[m], p)
            /\ ForHolder(active[k], p) => \E m \in 1 .. Depth' : ForHolder(active'[m], p)
      BY <3>1, <3>2
    <3>4. \A p \in Plugins : /\ Unheld(p)' <=> Unheld(p)
                             /\ p # q => (Missed(p)' <=> Missed(p))
      BY <1>1, <1>4, <2>5 DEF Missed, Unheld, Has, Available, Registered
    <3>5. \A p : Destroying(p)' <=> Destroying(p)
      BY DEF Destroying, pluginVars
    \* Whoever has just been finalised is being destroyed, or lost what it needs.
    <3>6. ASSUME Finalised
          PROVE  (\E m \in 1 .. Depth' : ForExecutor(active'[m], q)) \/ Destroying(q)
      <4>1. CASE Destroying(active[Depth].plugin)
        BY <1>1, <2>4, <4>1
      <4>2. CASE /\ Depth - 1 \in 1 .. Depth /\ Op(Depth - 1) = "deregistered"
                 /\ Face[active[Depth - 1].impl] \in Needs[active[Depth].plugin]
        <5>1. ForExecutor(active[Depth - 1], q)
          BY <1>1, <2>4, <4>2 DEF ForExecutor, Op
        <5> QED
          BY <3>3, <4>2, <5>1
      <4> QED
        BY <1>1, <3>6, <4>1, <4>2 DEF Finalised
    <3>7. ASSUME Asked, Finalised PROVE Asked'
      <4> SUFFICES ASSUME NEW p \in Plugins, Missed(p)'
                   PROVE  (\E m \in 1 .. Depth' : ForExecutor(active'[m], p)) \/ Destroying(p)'
        BY DEF Asked, ForExecutor
      <4>1. CASE p = q
        BY <3>5, <3>6, <3>7, <4>1
      <4>2. CASE p # q
        BY <3>3, <3>4, <3>5, <3>7, <4>2 DEF Asked
      <4> QED
        BY <4>1, <4>2
    <3>8. ASSUME Answered PROVE Answered'
      <4> SUFFICES ASSUME NEW p \in Plugins, Unheld(p)'
                   PROVE  \E m \in 1 .. Depth' : ForHolder(active'[m], p)
        BY DEF Answered, ForHolder
      <4> QED
        BY <3>3, <3>4, <3>8 DEF Answered
    <3>9. Finalised => Finalised'
      <4>1. \A k \in 1 .. Depth' : k - 1 \in 1 .. Depth =>
              k - 1 \in 1 .. Depth' /\ active'[k - 1] = active[k - 1]
        <5>1. \A k \in 1 .. Depth' : k - 1 # Depth
          BY <2>1
        <5> QED
          BY <3>1, <5>1
      <4> QED
        BY <2>1, <4>1, FinalisedKept
    <3> QED
      BY <3>7, <3>8, <3>9 DEF Onward, Served
  <2> QED
    BY <2>3, <2>6, <2>7, <2>8, <2>9 DEF IInv
<1> QED
  BY <1>3, <1>4 DEF FiniFunction

LEMMA InitInvariant == Init => IInv
<1> SUFFICES ASSUME Init PROVE IInv
  OBVIOUS
<1>1. /\ contexts = <<>> /\ listeners = [p \in Plugins |-> <<>>] /\ interfaces = {}
      /\ inited = [p \in Plugins |-> FALSE] /\ cached = [p \in Plugins |-> Null] /\ active = <<>>
      /\ pluginStates = [p \in Plugins |-> "none"] /\ agenda = <<>> /\ steps = 0
  BY DEF Init, ContextInit
<1>2. Typed
  <2>1. IsInjective(contexts)
    BY <1>1 DEF IsInjective
  <2>2. /\ contexts \in Seq(Plugins) /\ active \in Seq(Calls) /\ agenda \in Seq(AllTurns)
    BY <1>1
  <2> QED
    BY <1>1, <2>1, <2>2, PluginAssumption DEF Typed, Listened, States
<1>3. Depth = 0 /\ Len(agenda) = 0
  BY <1>1 DEF Depth
<1>4. Phases /\ Meant /\ Leaving
  BY <1>3 DEF Phases, Meant, Leaving
<1>5. \A stage, p : ~Pending(stage, p)
  BY <1>3 DEF Pending, Takes
<1>6. Sequenced
  BY <1>3, <1>5 DEF Sequenced, InOrder
<1>7. Living
  BY <1>1, <1>5 DEF Living, Loaded, Contains
<1>8. Backed
  BY <1>1 DEF Backed
<1> QED
  BY <1>2, <1>4, <1>6, <1>7, <1>8 DEF IInv

LEMMA StepPreserves == IInv /\ [Next]_vars => IInv' /\ Onward
<1> SUFFICES ASSUME IInv, [Next]_vars PROVE IInv' /\ Onward
  OBVIOUS
<1>1. CASE runLoadStep \/ runInitiliseStep \/ runFinaliseStep \/ runUnloadStep \/ runDestroyStep
  BY <1>1, StepsStart, StartKeeps DEF IInv
<1>2. CASE Step
  BY <1>2, LoadKeeps, CreateKeeps, PostLoadKeeps, UnloadKeeps, DestroyKeeps, ContextKeeps DEF Step
<1>3. CASE Notify /\ UNCHANGED pluginVars
  BY <1>3, RegistrationDoneKeeps, DeregistrationDoneKeeps, HolderRegisteredKeeps,
     HolderDeregisteredKeeps, ExecutorRegisteredKeeps, ExecutorDeregisteredKeeps,
     InitFunctionKeeps, FiniFunctionKeeps DEF Notify
<1>4. CASE UNCHANGED vars
  <2>1. /\ UNCHANGED <<contexts, listeners, interfaces, inited, cached, active>>
        /\ UNCHANGED <<pluginStates, agenda, steps>>
    BY <1>4 DEF vars, contextVars, pluginVars
  <2>2. Typed' /\ Sequenced' /\ Living' /\ Backed'
    BY <2>1 DEF IInv, Typed, Sequenced, Living, Backed, Loaded, Created, Pending, Has, Available, Registered
  <2>3. Phases' /\ Meant' /\ Leaving'
    BY <2>1 DEF IInv, Phases, Meant, Leaving, Told, Op, Depth, Loaded, Pending
  <2>4. Onward
    <3>1. \A p \in Plugins : (Missed(p)' <=> Missed(p)) /\ (Unheld(p)' <=> Unheld(p))
      BY <2>1, SameNeeds
    <3>2. Depth' = Depth /\ active' = active
      BY <2>1 DEF Depth
    <3>3. \A p \in Plugins : \A k \in 1 .. Depth :
            /\ ForExecutor(active[k], p) => \E m \in 1 .. Depth' : ForExecutor(active'[m], p)
            /\ ForHolder(active[k], p) => \E m \in 1 .. Depth' : ForHolder(active'[m], p)
      BY <3>2
    <3>4. UNCHANGED pluginVars
      BY <2>1 DEF pluginVars
    <3>5. (Asked => Asked') /\ (Answered => Answered')
      BY <3>1, <3>3, <3>4, CallsOnward
    <3>6. Finalised => Finalised'
      BY <3>2, <3>4, FinalisedKept
    <3> QED
      BY <3>5, <3>6 DEF Onward, Served
  <2> QED
    BY <2>2, <2>3, <2>4 DEF IInv
<1> QED
  BY <1>1, <1>2, <1>3, <1>4 DEF Next

\* The invariant of the dependency system and the steps of the plugin manager over it.
THEOREM Invariance == Spec => []IInv
  BY InitInvariant, StepPreserves, PTL DEF Spec

\* See TypeOK: no module has two contexts, and no plugin listens twice.
THEOREM TypeCorrect == Spec => []TypeOK
<1>1. IInv => TypeOK
  <2> SUFFICES ASSUME IInv PROVE TypeOK
    OBVIOUS
  <2>1. \A p \in Plugins : listeners[p] \in Seq({"holder", "executor"}) /\ IsInjective(listeners[p])
    BY ListenedFacts DEF IInv, Typed
  <2>2. listeners \in [Plugins -> Seq({"holder", "executor"})]
    BY <2>1 DEF IInv, Typed
  <2> QED
    BY <2>1, <2>2 DEF IInv, Typed, TypeOK, ContextTypeOK, AllTurns
<1> QED
  BY <1>1, Invariance, PTL

UsedIsThere ==
  /\ \A p \in Plugins : inited[p] => Available(p)
  /\ \A p \in Plugins : cached[p] # Null => cached[p] \in Registered(Wants[p])

\* What an initialised executor needs and what a Depends caches is registered, whatever
\* the dependencies are and however the calls of init and fini functions nest: the part
\* of CallbacksMatch and PointersCurrent that needs no assumption.
THEOREM BackedAlways == Spec => []UsedIsThere
<1>1. IInv => UsedIsThere
  BY DEF IInv, Backed, UsedIsThere
<1> QED
  BY <1>1, Invariance, PTL

LEMMA InitServes == Init => Served /\ Answered
<1> SUFFICES ASSUME Init PROVE Served /\ Answered
  OBVIOUS
<1>1. listeners = [p \in Plugins |-> <<>>] /\ active = <<>>
  BY DEF Init, ContextInit
<1>2. Depth = 0 /\ \A p \in Plugins : \A kind : ~Has(p, kind)
  BY <1>1, ListenedFacts DEF Depth, Has
<1> QED
  BY <1>2 DEF Served, Asked, Finalised, Answered, Missed, Unheld

\* See CallbacksMatch: when a step is over, every executor that has all it needs has been
\* initialised.  An interface that has a second implementation is announced as gone when
\* the first goes, and then nobody is told that it is still there; and an executor that
\* needs nothing waits for the first registration.
THEOREM CallbacksMatchHolds ==
  ASSUME Unique, Needy
  PROVE  Spec => []CallbacksMatch
<1>1. Init => Served
  BY InitServes
<1>2. IInv /\ Served /\ [Next]_vars => Served'
  BY StepPreserves DEF Onward
<1>3. IInv /\ Served => CallbacksMatch
  <2>1. IInv => \A p \in Plugins : inited[p] => Available(p)
    BY DEF IInv, Backed
  <2>2. IInv /\ Served /\ Idle => \A p \in Plugins : Has(p, "executor") /\ Available(p) => inited[p]
    BY AtRest DEF Served, Missed, Idle, Destroying
  <2> QED
    BY <2>1, <2>2 DEF CallbacksMatch
<1> QED
  BY <1>1, <1>2, <1>3, Invariance, PTL DEF Spec

\* See PointersCurrent: when a step is over, a Depends points to the implementation if
\* there is one.  With two implementations of an interface the holder of one that goes
\* is left with none.
THEOREM PointersCurrentHolds ==
  ASSUME Unique
  PROVE  Spec => []PointersCurrent
<1>1. Init => Answered
  BY InitServes
<1>2. IInv /\ Answered /\ [Next]_vars => Answered'
  BY StepPreserves DEF Onward
<1>3. IInv /\ Answered => PointersCurrent
  <2>1. IInv => \A p \in Plugins : cached[p] # Null => cached[p] \in Registered(Wants[p])
    BY DEF IInv, Backed
  <2>2. IInv /\ Answered /\ Idle => \A p \in Plugins :
          Has(p, "holder") /\ Registered(Wants[p]) # {} => cached[p] # Null
    BY AtRest DEF Unheld, Idle
  <2> QED
    BY <2>1, <2>2 DEF PointersCurrent
<1> QED
  BY <1>1, <1>2, <1>3, Invariance, PTL DEF Spec

\* See NothingLeftBehind: what a plugin has registered and who has listened for it is gone
\* when its library is.
THEOREM NothingLeft == Spec => []NothingLeftBehind
<1>1. IInv => NothingLeftBehind
  <2> SUFFICES ASSUME IInv, Idle, NEW p \in Plugins, pluginStates[p] = "none"
               PROVE  /\ ~Contains(contexts, p) /\ listeners[p] = <<>> /\ ~inited[p]
                      /\ Provided(p) \cap interfaces = {}
                      /\ \A q \in Plugins : cached[q] \notin Provided(p)
    BY DEF NothingLeftBehind
  <2>1. \A stage : ~Pending(stage, p)
    BY DEF Idle, Pending, Takes
  <2>2. ~Loaded(p) /\ ~Created(p)
    BY <2>1 DEF Loaded, Created
  <2>3. ~Contains(contexts, p) /\ listeners[p] = <<>> /\ ~inited[p]
    BY <2>2, Lives DEF IInv, Living
  <2>4. \A i \in Provided(p) : i \in Implementations /\ i \notin interfaces
    BY <2>2, ContextAssumption DEF IInv, Living, Provided, ByPostLoad, ByCallback
  <2>5. \A q \in Plugins : cached[q] \notin Provided(p)
    <3> SUFFICES ASSUME NEW q \in Plugins, cached[q] \in Provided(p) PROVE FALSE
      OBVIOUS
    <3>1. cached[q] # Null
      BY <2>4, ContextAssumption
    <3> QED
      BY <2>4, <3>1 DEF IInv, Backed, Registered
  <2> QED
    BY <2>3, <2>4, <2>5
<1> QED
  BY <1>1, Invariance, PTL

=============================================================================
