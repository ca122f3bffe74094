--------------------------- MODULE MeshctlProofs ----------------------------
(***************************************************************************)
(* Proofs about the operator's commands: meshctl's apply and deploy, for   *)
(* every inventory, and the command line that talks to the control API,    *)
(* for any clients and requests.                                           *)
(***************************************************************************)
EXTENDS MeshctlParts, TLAPS

-----------------------------------------------------------------------------
(* meshctl apply: s1 = live, s2 = left, s3 = pc, s4 = at, s5 = plan,       *)
(* s6 = failed, s7 = report, s8 = clean, s9 = fails, s10 = edits.          *)

Items == Seq(Applying!Item)
Planned == [verb : {"add", "set", "remove"}, kind : Applying!Kind]
Reports == {"none", "converged", "not converged", "error"}
Whole == Len(Order) + Len(Paths) + 1

\* Of a plan p: the kinds it adds or sets come in their order, ...
Before(k, l) == \E a, b \in DOMAIN Order : a < b /\ Order[a] = k /\ Order[b] = l
Makes(c) == c.verb # "remove"
InOrder(p) ==
  \A i, j \in DOMAIN p : i < j /\ Makes(p[i]) /\ Makes(p[j]) => Before(p[i].kind, p[j].kind)

\* ... each was observed before place n, ...
Seen(p, n) ==
  \A i \in DOMAIN p : Makes(p[i]) => \E a \in DOMAIN Order : a < n /\ Order[a] = p[i].kind

\* ... what it adds is missing and what it sets is one item at most, what it
\* sets has drifted, ...
Missing(p, on) ==
  \A i \in DOMAIN p : /\ p[i].verb = "add" => on[p[i].kind] = <<>>
                      /\ p[i].verb = "set" => Len(on[p[i].kind]) <= 1
Drifted(p, on) == \A i \in DOMAIN p : p[i].verb = "set" => on[p[i].kind] = <<"drift">>

\* ... and what was observed before place n is as desired, ambiguous or on the
\* plan.
Settled(x) == x = <<"want">> \/ Len(x) > 1
Treats(p, k) == \E i \in DOMAIN p : Makes(p[i]) /\ p[i].kind = k
Removes(p, k) == \E i \in DOMAIN p : p[i].verb = "remove" /\ p[i].kind = k
Covers(p, on, n) ==
  \A a \in DOMAIN Order : a < n => Settled(on[Order[a]]) \/ Treats(p, Order[a])
Clears(p, rest, n) ==
  \A b \in DOMAIN Paths : Len(Order) + b < n /\ Paths[b] \in rest => Removes(p, Paths[b])

ApplyTypes ==
  /\ s1 \in [Applying!Kind -> Items] /\ s2 \subseteq Applying!Tagged
  /\ s3 \in [Session -> {"idle", "observe", "change", "done"}]
  /\ s4 \in [Session -> 1..Whole]
  /\ s5 \in [Session -> Seq(Planned)]
  /\ s6 \in [Session -> BOOLEAN]
  /\ s7 \in [Session -> Reports]
  /\ s8 \in [Session -> BOOLEAN]
  /\ s9 \in 0..MaxSshFails /\ s10 \in 0..MaxEdits

Under == {"observe", "change"}

SessionInv(s) ==
  /\ s3[s] = "idle" => s4[s] = 1 /\ s5[s] = <<>> /\ s6[s] = FALSE
  /\ s3[s] = "change" => s4[s] = Whole
  /\ s3[s] \in Under => InOrder(s5[s]) /\ Seen(s5[s], s4[s]) /\ Missing(s5[s], s1)
  /\ s3[s] \in Under /\ s8[s] = TRUE =>
       /\ s6[s] = FALSE
       /\ Drifted(s5[s], s1) /\ Covers(s5[s], s1, s4[s]) /\ Clears(s5[s], s2, s4[s])

OneActive == \A s, t \in Session : s3[s] \in Under /\ s3[t] \in Under => s = t

ApplyInv == ApplyTypes /\ OneActive /\ \A s \in Session : SessionInv(s)

LEMMA Places ==
  /\ Order \in Seq(Applying!Kind) /\ DOMAIN Order = 1..Len(Order) /\ Len(Order) \in Nat
  /\ Paths \in Seq(Applying!Kind) /\ DOMAIN Paths = 1..Len(Paths) /\ Len(Paths) \in Nat
  /\ Whole \in Nat
  /\ Applying!Tagged \subseteq Applying!Kind
  /\ \A a \in DOMAIN Order : Order[a] \in Applying!Kind
<1>1. /\ Order \in Seq(Applying!Kind) /\ DOMAIN Order = 1..Len(Order) /\ Len(Order) \in Nat
      /\ Paths \in Seq(Applying!Kind) /\ DOMAIN Paths = 1..Len(Paths) /\ Len(Paths) \in Nat
  BY ApplyAssumption
<1>2. Whole \in Nat
  BY <1>1 DEF Whole
<1>3. Applying!Tagged \subseteq Applying!Kind
  BY <1>1 DEF Applying!Tagged
<1>4. QED BY <1>1, <1>2, <1>3, Zenon DEF Applying!Kind

LEMMA BeforeIsStrict ==
  ASSUME NEW k, NEW l, Before(k, l)
  PROVE  k # l /\ ~Before(l, k)
<1>1. PICK a \in DOMAIN Order, b \in DOMAIN Order : a < b /\ Order[a] = k /\ Order[b] = l
  BY Zenon DEF Before
<1>2. k # l
  BY <1>1, Places, ApplyAssumption
<1>3. ASSUME Before(l, k) PROVE FALSE
  <2>1. PICK c \in DOMAIN Order, d \in DOMAIN Order : c < d /\ Order[c] = l /\ Order[d] = k
    BY <1>3, Zenon DEF Before
  <2>2. c = b /\ d = a
    BY <1>1, <2>1, ApplyAssumption, Zenon
  <2>3. QED BY <1>1, <2>1, <2>2, Places
<1>4. QED BY <1>2, <1>3, Zenon

LEMMA OneMore ==
  ASSUME NEW p \in Seq(Planned), NEW c \in Planned, NEW q, q = p \o <<c>>
  PROVE  /\ q \in Seq(Planned)
         /\ DOMAIN q = DOMAIN p \cup {Len(p) + 1} /\ Len(p) + 1 \notin DOMAIN p
         /\ \A i \in DOMAIN p : q[i] = p[i] /\ i <= Len(p) /\ i \in Nat
         /\ q[Len(p) + 1] = c /\ Len(p) \in Nat
<1>1. Len(p) \in Nat /\ DOMAIN p = 1..Len(p) /\ q \in Seq(Planned) /\ Len(q) = Len(p) + 1
  OBVIOUS
<1>2. DOMAIN q = 1..Len(q)
  BY <1>1
<1>3. \A i \in DOMAIN p : q[i] = p[i]
  OBVIOUS
<1>4. q[Len(p) + 1] = c
  OBVIOUS
<1>5. QED BY <1>1, <1>2, <1>3, <1>4

\* A change for the kind observed next, put at the end of the plan.
LEMMA ObservedAdds ==
  ASSUME NEW p \in Seq(Planned), NEW n \in DOMAIN Order, InOrder(p), Seen(p, n),
         NEW c \in Planned, c.kind = Order[n], NEW q, q = p \o <<c>>
  PROVE  /\ InOrder(q) /\ Seen(q, n + 1)
         /\ \A k : Treats(p, k) => Treats(q, k)
         /\ Makes(c) => Treats(q, Order[n])
<1>1. /\ DOMAIN q = DOMAIN p \cup {Len(p) + 1} /\ q[Len(p) + 1] = c /\ Len(p) \in Nat
      /\ \A i \in DOMAIN p : q[i] = p[i] /\ i <= Len(p) /\ i \in Nat
  BY OneMore
<1>2. n \in Nat /\ n < n + 1
  BY Places
<1>3. Seen(q, n + 1)
  <2> SUFFICES ASSUME NEW i \in DOMAIN q, Makes(q[i])
               PROVE  \E a \in DOMAIN Order : a < n + 1 /\ Order[a] = q[i].kind
    BY Zenon DEF Seen
  <2>1. CASE i = Len(p) + 1
    BY <1>1, <1>2, <2>1, Zenon
  <2>2. CASE i \in DOMAIN p
    <3>1. PICK a \in DOMAIN Order : a < n /\ Order[a] = q[i].kind
      BY <1>1, <2>2, Zenon DEF Seen
    <3>2. a < n + 1
      BY <3>1, Places
    <3>3. QED BY <3>1, <3>2, Zenon
  <2>3. QED BY <1>1, <2>1, <2>2, Zenon
<1>4. InOrder(q)
  <2> SUFFICES ASSUME NEW i \in DOMAIN q, NEW j \in DOMAIN q, i < j, Makes(q[i]), Makes(q[j])
               PROVE  Before(q[i].kind, q[j].kind)
    BY Zenon DEF InOrder
  <2>1. i \in DOMAIN p
    BY <1>1
  <2>2. CASE j = Len(p) + 1
    BY <1>1, <2>1, <2>2, Zenon DEF Seen, Before
  <2>3. CASE j \in DOMAIN p
    BY <1>1, <2>1, <2>3, Zenon DEF InOrder
  <2>4. QED BY <1>1, <2>2, <2>3, Zenon
<1>5. \A k : Treats(p, k) => Treats(q, k)
  BY <1>1, Zenon DEF Treats
<1>6. Makes(c) => Treats(q, Order[n])
  BY <1>1, Zenon DEF Treats
<1>7. QED BY <1>3, <1>4, <1>5, <1>6, Zenon

\* A removal put at the end of the plan.
LEMMA RemovalAdds ==
  ASSUME NEW p \in Seq(Planned), NEW c \in Planned, c.verb = "remove", NEW q, q = p \o <<c>>
  PROVE  /\ InOrder(p) => InOrder(q)
         /\ \A n : Seen(p, n) => Seen(q, n)
         /\ \A on : Missing(p, on) => Missing(q, on)
         /\ \A on : Drifted(p, on) => Drifted(q, on)
         /\ \A k : Treats(p, k) => Treats(q, k)
         /\ \A k : Removes(p, k) => Removes(q, k)
         /\ Removes(q, c.kind)
<1>1. /\ DOMAIN q = DOMAIN p \cup {Len(p) + 1} /\ q[Len(p) + 1] = c
      /\ \A i \in DOMAIN p : q[i] = p[i]
  BY OneMore
<1>2. ~Makes(c) /\ c.verb # "add" /\ c.verb # "set"
  BY Zenon DEF Makes
<1>3. \A i \in DOMAIN q : (i \in DOMAIN p /\ q[i] = p[i]) \/ q[i] = c
  BY <1>1, Zenon
<1>4. (InOrder(p) => InOrder(q)) /\ \A n : Seen(p, n) => Seen(q, n)
  BY <1>2, <1>3, Zenon DEF InOrder, Seen
<1>5. \A on : Missing(p, on) => Missing(q, on)
  BY <1>2, <1>3, Zenon DEF Missing
<1>6. \A on : Drifted(p, on) => Drifted(q, on)
  BY <1>2, <1>3, Zenon DEF Drifted
<1>7. \A k : Treats(p, k) => Treats(q, k)
  BY <1>1, Zenon DEF Treats
<1>8. (\A k : Removes(p, k) => Removes(q, k)) /\ Removes(q, c.kind)
  BY <1>1, Zenon DEF Removes
<1>9. QED BY <1>4, <1>5, <1>6, <1>7, <1>8, Zenon

\* What is left of a plan when its first change has been run.
LEMMA RestOf ==
  ASSUME NEW p \in Seq(Planned), p # <<>>, NEW q, q = Tail(p), NEW c, c = Head(p)
  PROVE  /\ c \in Planned /\ q \in Seq(Planned)
         /\ 1 \in DOMAIN p /\ p[1] = c
         /\ \A i \in DOMAIN q : i + 1 \in DOMAIN p /\ q[i] = p[i + 1] /\ 1 < i + 1
         /\ \A i \in DOMAIN p : i # 1 => i - 1 \in DOMAIN q /\ q[i - 1] = p[i] /\ 1 < i
<1>1. Len(p) \in Nat /\ DOMAIN p = 1..Len(p) /\ Len(p) # 0
  OBVIOUS
<1>2. q \in Seq(Planned) /\ Len(q) = Len(p) - 1 /\ DOMAIN q = 1..Len(q) /\ c \in Planned /\ c = p[1]
  BY <1>1
<1>3. \A i \in DOMAIN q : i + 1 \in DOMAIN p /\ q[i] = p[i + 1] /\ 1 < i + 1
  BY <1>1, <1>2
<1>4. \A i \in DOMAIN p : i # 1 => i - 1 \in DOMAIN q /\ q[i - 1] = p[i] /\ 1 < i
  BY <1>1, <1>2
<1>5. QED BY <1>1, <1>2, <1>3, <1>4

LEMMA RestKeeps ==
  ASSUME NEW p \in Seq(Planned), p # <<>>, NEW q, q = Tail(p), NEW c, c = Head(p), InOrder(p)
  PROVE  /\ InOrder(q)
         /\ \A n : Seen(p, n) => Seen(q, n)
         /\ \A on : Missing(p, on) => Missing(q, on)
         /\ \A on : Drifted(p, on) => Drifted(q, on)
         /\ \A k : Treats(p, k) => Treats(q, k) \/ (Makes(c) /\ c.kind = k)
         /\ \A k : Removes(p, k) => Removes(q, k) \/ (c.verb = "remove" /\ c.kind = k)
         /\ Makes(c) => \A i \in DOMAIN q : Makes(q[i]) => Before(c.kind, q[i].kind)
<1>1. /\ 1 \in DOMAIN p /\ p[1] = c
      /\ \A i \in DOMAIN q : i + 1 \in DOMAIN p /\ q[i] = p[i + 1] /\ 1 < i + 1
      /\ \A i \in DOMAIN p : i # 1 => i - 1 \in DOMAIN q /\ q[i - 1] = p[i] /\ 1 < i
  BY RestOf
<1>2. \A i \in DOMAIN q : \E j \in DOMAIN p : q[i] = p[j]
  BY <1>1, Zenon
<1>3. InOrder(q)
  <2> SUFFICES ASSUME NEW i \in DOMAIN q, NEW j \in DOMAIN q, i < j, Makes(q[i]), Makes(q[j])
               PROVE  Before(q[i].kind, q[j].kind)
    BY Zenon DEF InOrder
  <2>1. i + 1 \in DOMAIN p /\ j + 1 \in DOMAIN p /\ q[i] = p[i + 1] /\ q[j] = p[j + 1]
    BY <1>1, Zenon
  <2>2. i \in Nat /\ j \in Nat
    BY RestOf
  <2>3. QED BY <2>1, <2>2 DEF InOrder
<1>4. \A n : Seen(p, n) => Seen(q, n)
  <2> SUFFICES ASSUME NEW n, Seen(p, n), NEW i \in DOMAIN q, Makes(q[i])
               PROVE  \E a \in DOMAIN Order : a < n /\ Order[a] = q[i].kind
    BY Zenon DEF Seen
  <2>1. PICK j \in DOMAIN p : q[i] = p[j]
    BY <1>2, Zenon
  <2>2. QED BY <2>1, Zenon DEF Seen
<1>5. \A on : Missing(p, on) => Missing(q, on)
  BY <1>2, Zenon DEF Missing
<1>6. \A on : Drifted(p, on) => Drifted(q, on)
  BY <1>2, Zenon DEF Drifted
<1>7. \A k : Treats(p, k) => Treats(q, k) \/ (Makes(c) /\ c.kind = k)
  BY <1>1, Zenon DEF Treats
<1>8. \A k : Removes(p, k) => Removes(q, k) \/ (c.verb = "remove" /\ c.kind = k)
  BY <1>1, Zenon DEF Removes
<1>9. Makes(c) => \A i \in DOMAIN q : Makes(q[i]) => Before(c.kind, q[i].kind)
  BY <1>1, Zenon DEF InOrder
<1>10. QED BY <1>3, <1>4, <1>5, <1>6, <1>7, <1>8, <1>9, Zenon

\* What a command does to the router.
LEMMA EffectOf ==
  ASSUME ApplyTypes, NEW c \in Planned, Applying!Effect(c),
         c.verb = "add" => s1[c.kind] = <<>>, c.verb = "set" => Len(s1[c.kind]) <= 1
  PROVE  /\ s1' \in [Applying!Kind -> Items] /\ s2' \subseteq Applying!Tagged /\ s2' \subseteq s2
         /\ \A k \in Applying!Kind : (k = c.kind /\ Makes(c)) \/ s1'[k] = s1[k]
         /\ Applying!Accepts(c) /\ c.verb = "add" => s1'[c.kind] = <<"want">>
         /\ c.verb = "set" /\ s1[c.kind] = <<"drift">> => s1'[c.kind] = <<"want">>
         /\ c.verb = "remove" => s2' = s2 \ {c.kind}
         /\ \A k \in Applying!Kind :
              s1'[k] # s1[k] => Len(s1[k]) <= 1 /\ Len(s1'[k]) <= 1
<1>1. c.kind \in Applying!Kind /\ c.verb \in {"add", "set", "remove"} /\ s1[c.kind] \in Items
  BY Zenon DEF Planned, ApplyTypes
<1>2. CASE c.verb = "add" /\ Applying!Accepts(c)
  <2>1. s1' = [s1 EXCEPT ![c.kind] = <<"want">>] /\ s2' = s2
    <3>1. s1' = [s1 EXCEPT ![c.kind] = Append(s1[c.kind], "want")] /\ s2' = s2
      BY <1>2, Zenon DEF Applying!Effect
    <3>2. Append(<<>>, "want") = <<"want">>
      OBVIOUS
    <3>3. QED BY <1>2, <3>1, <3>2, Zenon
  <2>2. <<"want">> \in Items /\ Len(<<"want">>) <= 1
    BY DEF Items, Applying!Item
  <2>3. Len(<<>>) <= 1
    OBVIOUS
  <2> HIDE DEF Items
  <2>4. QED BY <1>1, <1>2, <2>1, <2>2, <2>3, Zenon DEF ApplyTypes, Makes
<1>3. CASE c.verb = "set"
  <2> DEFINE x == [i \in DOMAIN s1[c.kind] |-> "want"]
  <2>1. s1' = [s1 EXCEPT ![c.kind] = x] /\ s2' = s2
    BY <1>3, Zenon DEF Applying!Effect
  <2>2. Len(s1[c.kind]) \in Nat /\ DOMAIN s1[c.kind] = 1..Len(s1[c.kind])
    BY <1>1 DEF Items
  <2>3. x \in Items /\ Len(x) = Len(s1[c.kind])
    BY <2>2 DEF Items, Applying!Item
  <2>4. s1[c.kind] = <<"drift">> => x = <<"want">>
    <3> SUFFICES ASSUME s1[c.kind] = <<"drift">> PROVE x = <<"want">>
      OBVIOUS
    <3>1. Len(s1[c.kind]) = 1 /\ DOMAIN s1[c.kind] = 1..1
      OBVIOUS
    <3>2. QED BY <3>1
  <2> HIDE DEF x, Items
  <2>5. QED BY <1>1, <1>3, <2>1, <2>3, <2>4, Zenon DEF ApplyTypes, Makes
<1>4. CASE c.verb = "remove"
  <2>1. s2' = s2 \ {c.kind} /\ s1' = s1
    BY <1>4, Zenon DEF Applying!Effect
  <2>2. QED BY <1>4, <2>1, Zenon DEF ApplyTypes
<1>5. CASE c.verb = "add" /\ ~Applying!Accepts(c)
  <2>1. s2' = s2 /\ s1' = s1
    BY <1>5, Zenon DEF Applying!Effect
  <2>2. QED BY <1>5, <2>1, Zenon DEF ApplyTypes
<1>6. QED BY <1>1, <1>2, <1>3, <1>4, <1>5, Zenon

\* A resource that apply leaves alone exists and has not drifted.
LEMMA SettledIs ==
  ASSUME NEW x, Settled(x)
  PROVE  x # <<>> /\ x # <<"drift">> /\ Applying!classify(x) \in {"converged", "conflict"}
<1>1. /\ Len(<<>>) = 0 /\ Len(<<"drift">>) = 1
      /\ <<"want">> # <<>> /\ <<"want">> # <<"drift">>
  OBVIOUS
<1>2. ~(0 > 1) /\ ~(1 > 1)
  OBVIOUS
<1>3. x # <<>> /\ x # <<"drift">>
  BY <1>1, <1>2, Zenon DEF Settled
<1>4. QED BY <1>3, Zenon DEF Applying!classify

\* The first change of a plan finds what it refers to.
LEMMA HeadAccepted ==
  ASSUME ApplyTypes, NEW p \in Seq(Planned), p # <<>>, InOrder(p), Seen(p, Whole),
         Missing(p, s1), Covers(p, s1, Whole)
  PROVE  Applying!Accepts(Head(p))
<1> DEFINE c == Head(p)
<1>1. c \in Planned /\ 1 \in DOMAIN p /\ p[1] = c
  BY RestOf, Zenon
<1> SUFFICES ASSUME c.verb = "add" PROVE Applying!Accepts(c)
  BY <1>1, Zenon DEF Applying!Accepts
<1>2. s1[c.kind] = <<>> /\ Makes(c)
  BY <1>1, Zenon DEF Missing, Makes
<1>3. PICK b \in DOMAIN Order : Order[b] = c.kind
  BY <1>1, <1>2, Zenon DEF Seen
<1> HIDE DEF c
<1>4. ASSUME NEW n \in Needs[c.kind]
      PROVE  s1[n] # <<>>
  <2>1. PICK a \in 1..b - 1 : n = Order[a]
    BY <1>3, ApplyAssumption, Zenon
  <2>2. a \in DOMAIN Order /\ a < b /\ a < Whole
    BY <1>3, <2>1, Places DEF Whole
  <2>3. Before(n, c.kind)
    BY <1>3, <2>1, <2>2, Zenon DEF Before
  <2>4. ~Treats(p, n)
    <3> SUFFICES ASSUME NEW i \in DOMAIN p, Makes(p[i]), p[i].kind = n PROVE FALSE
      BY Zenon DEF Treats
    <3>1. i # 1
      BY <1>1, <2>3, BeforeIsStrict, Zenon
    <3>2. 1 < i
      BY <3>1
    <3>3. Before(c.kind, n)
      BY <1>1, <1>2, <3>2, Zenon DEF InOrder
    <3>4. QED BY <2>3, <3>3, BeforeIsStrict, Zenon
  <2>5. Settled(s1[n])
    BY <2>1, <2>2, <2>4, Zenon DEF Covers
  <2>6. QED BY <2>5, SettledIs, Zenon
<1>5. QED BY <1>2, <1>4, Zenon DEF Applying!Accepts

LEMMA ChangeAppended ==
  ASSUME NEW p \in Seq(Planned), NEW c \in Planned, NEW q, q = p \o <<c>>, NEW on
  PROVE  /\ /\ Missing(p, on)
            /\ c.verb = "add" => on[c.kind] = <<>>
            /\ c.verb = "set" => Len(on[c.kind]) <= 1
            => Missing(q, on)
         /\ Drifted(p, on) /\ (c.verb = "set" => on[c.kind] = <<"drift">>) => Drifted(q, on)
         /\ \A k : Removes(p, k) => Removes(q, k)
<1>1. /\ DOMAIN q = DOMAIN p \cup {Len(p) + 1} /\ q[Len(p) + 1] = c
      /\ \A i \in DOMAIN p : q[i] = p[i]
  BY OneMore
<1>2. \A i \in DOMAIN q : (i \in DOMAIN p /\ q[i] = p[i]) \/ q[i] = c
  BY <1>1, Zenon
<1>3. /\ Missing(p, on)
      /\ c.verb = "add" => on[c.kind] = <<>>
      /\ c.verb = "set" => Len(on[c.kind]) <= 1
      => Missing(q, on)
  BY <1>2, Zenon DEF Missing
<1>4. Drifted(p, on) /\ (c.verb = "set" => on[c.kind] = <<"drift">>) => Drifted(q, on)
  BY <1>2, Zenon DEF Drifted
<1>5. \A k : Removes(p, k) => Removes(q, k)
  BY <1>1, Zenon DEF Removes
<1>6. QED BY <1>3, <1>4, <1>5, Zenon

\* The change an observation asks for.
LEMMA ChangeOf ==
  ASSUME ApplyTypes, NEW k \in Applying!Kind
  PROVE  \/ Settled(s1[k]) /\ Applying!change(k) = <<>>
         \/ \E c \in Planned :
              /\ Applying!change(k) = <<c>> /\ c.kind = k /\ Makes(c)
              /\ c.verb = "add" => s1[k] = <<>>
              /\ c.verb = "set" => s1[k] = <<"drift">>
<1>1. s1[k] \in Seq(Applying!Item)
  BY Zenon DEF ApplyTypes, Items
<1>2. CASE Settled(s1[k])
  <2>1. Applying!classify(s1[k]) \in {"converged", "conflict"}
    BY <1>2, SettledIs, Zenon
  <2>2. QED BY <1>2, <2>1 DEF Applying!change
<1>3. CASE s1[k] = <<>>
  <2> DEFINE c == [verb |-> "add", kind |-> k]
  <2>1. Applying!classify(s1[k]) = "missing"
    BY <1>3 DEF Applying!classify
  <2>2. Applying!change(k) = <<c>>
    BY <2>1, Zenon DEF Applying!change
  <2>3. c \in Planned /\ c.kind = k /\ Makes(c) /\ c.verb = "add"
    BY Zenon DEF Planned, Makes
  <2> HIDE DEF c
  <2>4. QED BY <1>3, <2>2, <2>3, Zenon
<1>4. CASE s1[k] = <<"drift">>
  <2> DEFINE c == [verb |-> "set", kind |-> k]
  <2>1. Applying!classify(s1[k]) = "drifted"
    BY <1>4 DEF Applying!classify
  <2>2. Applying!change(k) = <<c>>
    BY <2>1, Zenon DEF Applying!change
  <2>3. c \in Planned /\ c.kind = k /\ Makes(c) /\ c.verb = "set"
    BY Zenon DEF Planned, Makes
  <2> HIDE DEF c
  <2>4. QED BY <1>4, <2>2, <2>3, Zenon
<1>5. s1[k] = <<>> \/ s1[k] = <<"drift">> \/ Settled(s1[k])
  <2>1. Len(s1[k]) \in Nat /\ (Len(s1[k]) = 0 => s1[k] = <<>>)
    BY <1>1
  <2>2. CASE Len(s1[k]) = 1
    <3>1. s1[k] = <<s1[k][1]>> /\ s1[k][1] \in {"want", "drift"}
      BY <1>1, <2>2 DEF Applying!Item
    <3>2. QED BY <3>1, Zenon DEF Settled
  <2>3. \A m \in Nat : m = 0 \/ m = 1 \/ m > 1
    OBVIOUS
  <2>4. QED BY <2>1, <2>2, <2>3, Zenon DEF Settled
<1>6. QED BY <1>2, <1>3, <1>4, <1>5, Zenon

\* Only the session that is under way takes a step.
Elsewhere(s) ==
  \A t \in Session : t # s =>
    s3'[t] = s3[t] /\ s4'[t] = s4[t] /\ s5'[t] = s5[t] /\ s6'[t] = s6[t] /\ s7'[t] = s7[t]
    /\ s8'[t] = s8[t]

LEMMA ByOne ==
  ASSUME ApplyInv, ApplyTypes', NEW s \in Session, s3[s] \in Under, Elsewhere(s), SessionInv(s)'
  PROVE  ApplyInv'
<1>1. \A t \in Session : t # s => s3[t] \notin Under
  BY Zenon DEF ApplyInv, OneActive
<1>2. ASSUME NEW t \in Session, t # s
      PROVE  SessionInv(t)' /\ s3'[t] \notin Under
  <2>1. SessionInv(t) /\ s3[t] \notin Under
    BY <1>1, <1>2, Zenon DEF ApplyInv
  <2>2. s3'[t] = s3[t] /\ s4'[t] = s4[t] /\ s5'[t] = s5[t] /\ s6'[t] = s6[t] /\ s7'[t] = s7[t]
        /\ s8'[t] = s8[t]
    BY <1>2, Zenon DEF Elsewhere
  <2>3. s3'[t] \notin Under /\ s3'[t] # "change"
    BY <2>1, <2>2, Zenon DEF Under
  <2>4. QED BY <2>1, <2>2, <2>3, Zenon DEF SessionInv
<1>3. OneActive'
  BY <1>2, Zenon DEF OneActive
<1>4. QED BY <1>2, <1>3, Zenon DEF ApplyInv

LEMMA ObserveKeeps ==
  ASSUME ApplyInv, NEW s \in Session, Applying!Observe(s)
  PROVE  ApplyInv'
<1> DEFINE n == s4[s]
           k == Order[n]
           d == Applying!change(k)
<1>1. /\ s3[s] = "observe" /\ n \in DOMAIN Order /\ k \in Applying!Kind
      /\ s5' = [s5 EXCEPT ![s] = s5[s] \o d] /\ s4' = [s4 EXCEPT ![s] = n + 1]
      /\ UNCHANGED <<s1, s2, s3, s6, s7, s8, s9, s10>>
  BY Places DEF Applying!Observe, ApplyInv, ApplyTypes, Whole
<1>2. n + 1 \in 1..Whole /\ s5[s] \in Seq(Planned) /\ n \in Nat /\ Len(Order) + 1 > n
  BY <1>1, Places DEF ApplyInv, ApplyTypes, Whole
<1>3. PICK p \in Seq(Planned) : p = s5[s]
  BY <1>2, Zenon
<1>4. PICK q : q = p \o d
  BY Zenon
<1>5. /\ InOrder(p) /\ Seen(p, n) /\ Missing(p, s1)
      /\ s8[s] = TRUE => s6[s] = FALSE /\ Drifted(p, s1) /\ Covers(p, s1, n) /\ Clears(p, s2, n)
  BY <1>1, <1>3, Zenon DEF ApplyInv, SessionInv, Under
<1>6. /\ q \in Seq(Planned) /\ InOrder(q) /\ Seen(q, n + 1) /\ Missing(q, s1)
      /\ Drifted(p, s1) => Drifted(q, s1)
      /\ \A l : Treats(p, l) => Treats(q, l)
      /\ \A l : Removes(p, l) => Removes(q, l)
      /\ Settled(s1[k]) \/ Treats(q, k)
  <2>0. ApplyTypes
    BY Zenon DEF ApplyInv
  <2>1. CASE Settled(s1[k]) /\ d = <<>>
    <3>1. q = p
      BY <1>4, <2>1
    <3>2. Seen(q, n + 1)
      BY <1>2, <1>5, <3>1, Places DEF Seen
    <3>3. QED BY <1>5, <2>1, <3>1, <3>2, Zenon
  <2>2. CASE \E c \in Planned :
               /\ d = <<c>> /\ c.kind = k /\ Makes(c)
               /\ c.verb = "add" => s1[k] = <<>>
               /\ c.verb = "set" => s1[k] = <<"drift">>
    <3>1. PICK c \in Planned :
            /\ d = <<c>> /\ c.kind = k /\ Makes(c)
            /\ c.verb = "add" => s1[k] = <<>>
            /\ c.verb = "set" => s1[k] = <<"drift">>
      BY <2>2, Zenon
    <3>2. q = p \o <<c>>
      BY <1>4, <3>1, Zenon
    <3>3. q \in Seq(Planned)
      BY <3>2, OneMore, Zenon
    <3>4. /\ InOrder(q) /\ Seen(q, n + 1) /\ Treats(q, k)
          /\ \A l : Treats(p, l) => Treats(q, l)
      BY <1>1, <1>5, <3>1, <3>2, ObservedAdds, Zenon
    <3>5. /\ Missing(q, s1) /\ (Drifted(p, s1) => Drifted(q, s1))
          /\ \A l : Removes(p, l) => Removes(q, l)
      <4>1. c.verb = "set" => Len(s1[k]) <= 1
        <5>1. Len(<<"drift">>) <= 1
          OBVIOUS
        <5>2. QED BY <3>1, <5>1, Zenon
      <4>2. QED BY <1>5, <3>1, <3>2, <4>1, ChangeAppended, Zenon
    <3>6. QED BY <3>3, <3>4, <3>5, Zenon
  <2>3. QED BY <1>1, <2>0, <2>1, <2>2, ChangeOf, Zenon
<1> HIDE DEF d
<1>7. s5'[s] = q /\ s4'[s] = n + 1
  BY <1>1, <1>3, <1>4, Zenon DEF ApplyInv, ApplyTypes
<1>8. ApplyTypes'
  BY <1>1, <1>2, <1>3, <1>4, <1>6, Zenon DEF ApplyInv, ApplyTypes
<1>9. Elsewhere(s)
  BY <1>1, Zenon DEF Elsewhere, ApplyInv, ApplyTypes
<1>10. ASSUME s8[s] = TRUE
       PROVE  Covers(q, s1, n + 1) /\ Clears(q, s2, n + 1)
  <2>1. Covers(p, s1, n) /\ Clears(p, s2, n)
    BY <1>5, <1>10, Zenon
  <2>2. ASSUME NEW a \in DOMAIN Order, a < n + 1
        PROVE  Settled(s1[Order[a]]) \/ Treats(q, Order[a])
    <3>1. a = n \/ a < n
      BY <1>2, <2>2, Places
    <3>2. QED BY <1>6, <2>1, <3>1, Zenon DEF Covers
  <2>3. ASSUME NEW b \in DOMAIN Paths
        PROVE  ~(Len(Order) + b < n + 1)
    BY <1>2, Places
  <2>4. QED BY <2>2, <2>3, Zenon DEF Covers, Clears
<1>11. SessionInv(s)'
  <2>1. s3'[s] = "observe" /\ s8'[s] = s8[s] /\ s6'[s] = s6[s] /\ s1' = s1 /\ s2' = s2
    BY <1>1, Zenon
  <2>2. QED BY <1>5, <1>6, <1>7, <1>10, <2>1, Zenon DEF SessionInv, Under
<1>12. QED BY <1>1, <1>8, <1>9, <1>11, ByOne, Zenon DEF Under

LEMMA ScanKeeps ==
  ASSUME ApplyInv, NEW s \in Session, Applying!Scan(s)
  PROVE  ApplyInv'
<1> DEFINE n == s4[s]
           b == n - Len(Order)
           k == Paths[b]
           d == IF k \in s2 THEN <<[verb |-> "remove", kind |-> k]>> ELSE <<>>
<1>1. /\ s3[s] = "observe" /\ b \in DOMAIN Paths
      /\ s5' = [s5 EXCEPT ![s] = s5[s] \o d] /\ s4' = [s4 EXCEPT ![s] = n + 1]
      /\ UNCHANGED <<s1, s2, s3, s6, s7, s8, s9, s10>>
  BY Zenon DEF Applying!Scan, ApplyInv, ApplyTypes
<1>2. /\ n + 1 \in 1..Whole /\ s5[s] \in Seq(Planned) /\ n \in Nat /\ Len(Order) + b = n
      /\ k \in Applying!Kind /\ b \in Nat
  BY <1>1, Places DEF ApplyInv, ApplyTypes, Whole
<1>3. PICK p \in Seq(Planned) : p = s5[s]
  BY <1>2, Zenon
<1>4. PICK q : q = p \o d
  BY Zenon
<1>5. /\ InOrder(p) /\ Seen(p, n) /\ Missing(p, s1)
      /\ s8[s] = TRUE => s6[s] = FALSE /\ Drifted(p, s1) /\ Covers(p, s1, n) /\ Clears(p, s2, n)
  BY <1>1, <1>3, Zenon DEF ApplyInv, SessionInv, Under
<1>6. Seen(p, n + 1)
  BY <1>2, <1>5, Places DEF Seen
<1>7. /\ q \in Seq(Planned) /\ InOrder(q) /\ Seen(q, n + 1) /\ Missing(q, s1)
      /\ Drifted(p, s1) => Drifted(q, s1)
      /\ \A l : Treats(p, l) => Treats(q, l)
      /\ \A l : Removes(p, l) => Removes(q, l)
      /\ k \in s2 => Removes(q, k)
  <2>1. CASE k \notin s2
    <3>1. q = p
      BY <1>4, <2>1
    <3>2. QED BY <1>5, <1>6, <2>1, <3>1, Zenon
  <2>2. CASE k \in s2
    <3> DEFINE c == [verb |-> "remove", kind |-> k]
    <3>1. q = p \o <<c>>
      BY <1>4, <2>2, Zenon
    <3>2. c \in Planned /\ c.verb = "remove" /\ c.kind = k
      BY <1>2, Zenon DEF Planned
    <3> HIDE DEF c
    <3>3. q \in Seq(Planned)
      BY <3>1, <3>2, OneMore, Zenon
    <3>4. /\ InOrder(q) /\ Seen(q, n + 1) /\ Missing(q, s1) /\ (Drifted(p, s1) => Drifted(q, s1))
          /\ \A l : Treats(p, l) => Treats(q, l)
          /\ \A l : Removes(p, l) => Removes(q, l)
          /\ Removes(q, k)
      <4>1. /\ InOrder(p) => InOrder(q)
            /\ \A m : Seen(p, m) => Seen(q, m)
            /\ \A on : Missing(p, on) => Missing(q, on)
            /\ \A on : Drifted(p, on) => Drifted(q, on)
            /\ \A l : Treats(p, l) => Treats(q, l)
            /\ \A l : Removes(p, l) => Removes(q, l)
            /\ Removes(q, c.kind)
        BY <3>1, <3>2, RemovalAdds, Zenon
      <4>2. QED BY <1>5, <1>6, <3>2, <4>1, Zenon
    <3>5. QED BY <3>3, <3>4, Zenon
  <2>3. QED BY <2>1, <2>2, Zenon
<1> HIDE DEF d
<1>8. s5'[s] = q /\ s4'[s] = n + 1
  BY <1>1, <1>3, <1>4, Zenon DEF ApplyInv, ApplyTypes
<1>9. ApplyTypes'
  BY <1>1, <1>2, <1>3, <1>4, <1>7, Zenon DEF ApplyInv, ApplyTypes
<1>10. Elsewhere(s)
  BY <1>1, Zenon DEF Elsewhere, ApplyInv, ApplyTypes
<1>11. ASSUME s8[s] = TRUE
       PROVE  Covers(q, s1, n + 1) /\ Clears(q, s2, n + 1)
  <2>1. Covers(p, s1, n) /\ Clears(p, s2, n)
    BY <1>5, <1>11, Zenon
  <2>2. ASSUME NEW a \in DOMAIN Order
        PROVE  Settled(s1[Order[a]]) \/ Treats(q, Order[a])
    <3>1. a < n
      BY <1>1, <1>2, <2>2, Places
    <3>2. QED BY <1>7, <2>1, <3>1, Zenon DEF Covers
  <2>3. ASSUME NEW e \in DOMAIN Paths, Len(Order) + e < n + 1, Paths[e] \in s2
        PROVE  Removes(q, Paths[e])
    <3>1. e = b \/ Len(Order) + e < n
      BY <1>2, <2>3, Places
    <3>2. QED BY <1>7, <2>1, <2>3, <3>1, Zenon DEF Clears
  <2>4. QED BY <2>2, <2>3, Zenon DEF Covers, Clears
<1>12. SessionInv(s)'
  <2>1. s3'[s] = "observe" /\ s8'[s] = s8[s] /\ s6'[s] = s6[s] /\ s1' = s1 /\ s2' = s2
    BY <1>1, Zenon
  <2>2. QED BY <1>5, <1>7, <1>8, <1>11, <2>1, Zenon DEF SessionInv, Under
<1>13. QED BY <1>1, <1>9, <1>10, <1>12, ByOne, Zenon DEF Under

LEMMA DecideKeeps ==
  ASSUME ApplyInv, NEW s \in Session, Applying!Decide(s)
  PROVE  ApplyInv'
<1>1. s3[s] = "observe" /\ s4[s] = Whole /\ UNCHANGED <<s1, s2, s4, s5, s6, s8, s9, s10>>
  BY Places DEF Applying!Decide, ApplyInv, ApplyTypes, Whole
<1>2. SessionInv(s)
  BY Zenon DEF ApplyInv
<1>3. CASE s5[s] = <<>>
  <2>1. s3' = [s3 EXCEPT ![s] = "done"] /\ s7' = [s7 EXCEPT ![s] = "converged"]
    BY <1>3, Zenon DEF Applying!Decide
  <2>2. ApplyTypes' /\ Elsewhere(s) /\ s3'[s] = "done"
    BY <1>1, <2>1, Zenon DEF ApplyInv, ApplyTypes, Elsewhere, Reports
  <2>3. SessionInv(s)'
    BY <2>2, Zenon DEF SessionInv, Under
  <2>4. QED BY <1>1, <2>2, <2>3, ByOne, Zenon DEF Under
<1>4. CASE s5[s] # <<>>
  <2>1. s3' = [s3 EXCEPT ![s] = "change"] /\ s7' = s7
    BY <1>4, Zenon DEF Applying!Decide
  <2>2. ApplyTypes' /\ Elsewhere(s) /\ s3'[s] = "change"
    BY <1>1, <2>1, Zenon DEF ApplyInv, ApplyTypes, Elsewhere
  <2>3. SessionInv(s)'
    BY <1>1, <1>2, <2>2, Zenon DEF SessionInv, Under
  <2>4. QED BY <1>1, <2>2, <2>3, ByOne, Zenon DEF Under
<1>5. QED BY <1>3, <1>4, Zenon

\* Running the first change of the plan, with the answer lost or not.
LEMMA HeadRuns ==
  ASSUME ApplyInv, NEW s \in Session, s3[s] = "change", s5[s] # <<>>,
         Applying!Effect(Head(s5[s])) \/ UNCHANGED <<s1, s2>>
  PROVE  /\ s1' \in [Applying!Kind -> Items] /\ s2' \subseteq Applying!Tagged
         /\ Tail(s5[s]) \in Seq(Planned)
         /\ InOrder(Tail(s5[s])) /\ Seen(Tail(s5[s]), Whole) /\ Missing(Tail(s5[s]), s1')
         /\ \A k \in Applying!Kind :
              s1'[k] # s1[k] => Len(s1[k]) <= 1 /\ Len(s1'[k]) <= 1
<1>1. PICK p \in Seq(Planned) : p = s5[s] /\ p # <<>>
  BY Zenon DEF ApplyInv, ApplyTypes
<1>2. InOrder(p) /\ Seen(p, Whole) /\ Missing(p, s1)
  BY <1>1, Zenon DEF ApplyInv, SessionInv, Under
<1>3. PICK q, c : q = Tail(p) /\ c = Head(p)
  BY Zenon
<1>4. /\ c \in Planned /\ q \in Seq(Planned) /\ 1 \in DOMAIN p /\ p[1] = c
  BY <1>1, <1>3, RestOf, Zenon
<1>5. /\ InOrder(q) /\ Seen(q, Whole) /\ Missing(q, s1)
      /\ Makes(c) => \A i \in DOMAIN q : Makes(q[i]) => Before(c.kind, q[i].kind)
  BY <1>1, <1>2, <1>3, RestKeeps, Zenon
<1>6. CASE UNCHANGED <<s1, s2>>
  BY <1>1, <1>3, <1>4, <1>5, <1>6, Zenon DEF ApplyInv, ApplyTypes
<1>7. CASE Applying!Effect(c)
  <2>1. /\ c.verb = "add" => s1[c.kind] = <<>>
        /\ c.verb = "set" => Len(s1[c.kind]) <= 1
    BY <1>2, <1>4, Zenon DEF Missing
  <2>2. /\ s1' \in [Applying!Kind -> Items] /\ s2' \subseteq Applying!Tagged
        /\ \A k \in Applying!Kind : (k = c.kind /\ Makes(c)) \/ s1'[k] = s1[k]
        /\ \A k \in Applying!Kind :
             s1'[k] # s1[k] => Len(s1[k]) <= 1 /\ Len(s1'[k]) <= 1
    BY <1>4, <1>7, <2>1, EffectOf, Zenon DEF ApplyInv
  <2>3. ASSUME NEW i \in DOMAIN q, Makes(q[i])
        PROVE  s1'[q[i].kind] = s1[q[i].kind]
    <3>1. q[i] \in Planned
      BY <1>4
    <3>2. q[i].kind \in Applying!Kind
      BY <3>1, Zenon DEF Planned
    <3>3. Makes(c) => q[i].kind # c.kind
      BY <1>5, <2>3, BeforeIsStrict, Zenon
    <3>4. QED BY <2>2, <3>2, <3>3, Zenon
  <2>4. Missing(q, s1')
    BY <1>5, <2>3, Zenon DEF Missing, Makes
  <2>5. QED BY <1>1, <1>3, <1>4, <1>5, <2>2, <2>4, Zenon
<1>8. QED BY <1>1, <1>3, <1>6, <1>7, Zenon

LEMMA RunChangeKeeps ==
  ASSUME ApplyInv, NEW s \in Session, Applying!run_change(s)
  PROVE  ApplyInv'
<1>1. /\ s3[s] = "change" /\ s5[s] # <<>> /\ Applying!Effect(Head(s5[s]))
      /\ s5' = [s5 EXCEPT ![s] = Tail(s5[s])]
      /\ UNCHANGED <<s3, s4, s7, s8, s9, s10>>
  BY Zenon DEF Applying!run_change, ApplyInv, ApplyTypes
<1>2. PICK p \in Seq(Planned) : p = s5[s] /\ p # <<>>
  BY <1>1, Zenon DEF ApplyInv, ApplyTypes
<1>3. PICK q, c : q = Tail(p) /\ c = Head(p)
  BY Zenon
<1>4. SessionInv(s) /\ s4[s] = Whole
  BY <1>1, Zenon DEF ApplyInv, SessionInv
<1>5. /\ s1' \in [Applying!Kind -> Items] /\ s2' \subseteq Applying!Tagged
      /\ q \in Seq(Planned) /\ InOrder(q) /\ Seen(q, Whole) /\ Missing(q, s1')
  BY <1>1, <1>2, <1>3, HeadRuns, Zenon
<1>6. s6' \in [Session -> BOOLEAN] /\ (\A t \in Session : t # s => s6'[t] = s6[t])
      /\ (Applying!Accepts(c) => s6'[s] = s6[s])
  <2>1. s6' = [s6 EXCEPT ![s] = s6[s] \/ ~Applying!Accepts(c)]
    BY <1>2, <1>3, Zenon DEF Applying!run_change
  <2>2. s6 \in [Session -> BOOLEAN]
    BY Zenon DEF ApplyInv, ApplyTypes
  <2>3. QED BY <2>1, <2>2, Zenon
<1>7. s5'[s] = q /\ s5' \in [Session -> Seq(Planned)]
  BY <1>1, <1>2, <1>3, <1>5, Zenon DEF ApplyInv, ApplyTypes
<1>8. ApplyTypes'
  BY <1>1, <1>5, <1>6, <1>7, Zenon DEF ApplyInv, ApplyTypes
<1>9. Elsewhere(s)
  BY <1>1, <1>6, Zenon DEF Elsewhere, ApplyInv, ApplyTypes
<1>10. ASSUME s8[s] = TRUE
       PROVE  /\ s6'[s] = FALSE
              /\ Drifted(q, s1') /\ Covers(q, s1', Whole) /\ Clears(q, s2', Whole)
  <2>1. /\ s6[s] = FALSE /\ InOrder(p) /\ Seen(p, Whole) /\ Missing(p, s1)
        /\ Drifted(p, s1) /\ Covers(p, s1, Whole) /\ Clears(p, s2, Whole)
    BY <1>1, <1>2, <1>4, <1>10, Zenon DEF SessionInv, Under
  <2>2. ApplyTypes
    BY Zenon DEF ApplyInv
  <2>3. Applying!Accepts(c)
    BY <1>2, <1>3, <2>1, <2>2, HeadAccepted, Zenon
  <2>4. c \in Planned /\ 1 \in DOMAIN p /\ p[1] = c /\ q \in Seq(Planned)
    BY <1>2, <1>3, RestOf, Zenon
  <2>5. /\ c.verb = "add" => s1[c.kind] = <<>>
        /\ c.verb = "set" => s1[c.kind] = <<"drift">> /\ Len(s1[c.kind]) <= 1
    BY <2>1, <2>4, Zenon DEF Missing, Drifted
  <2>6. /\ \A k \in Applying!Kind : (k = c.kind /\ Makes(c)) \/ s1'[k] = s1[k]
        /\ Makes(c) => s1'[c.kind] = <<"want">>
        /\ c.verb = "remove" => s2' = s2 \ {c.kind}
        /\ s2' \subseteq s2
    <3>1. Applying!Effect(c) /\ c.verb \in {"add", "set", "remove"}
      BY <1>1, <1>2, <1>3, <2>4, Zenon DEF Planned
    <3>2. /\ \A k \in Applying!Kind : (k = c.kind /\ Makes(c)) \/ s1'[k] = s1[k]
          /\ Applying!Accepts(c) /\ c.verb = "add" => s1'[c.kind] = <<"want">>
          /\ c.verb = "set" /\ s1[c.kind] = <<"drift">> => s1'[c.kind] = <<"want">>
          /\ c.verb = "remove" => s2' = s2 \ {c.kind}
          /\ s2' \subseteq s2
      BY <2>2, <2>4, <2>5, <3>1, EffectOf, Zenon
    <3>3. QED BY <2>3, <2>5, <3>1, <3>2, Zenon DEF Makes
  <2>7. /\ Drifted(q, s1)
        /\ \A k : Treats(p, k) => Treats(q, k) \/ (Makes(c) /\ c.kind = k)
        /\ \A k : Removes(p, k) => Removes(q, k) \/ (c.verb = "remove" /\ c.kind = k)
        /\ Makes(c) => \A i \in DOMAIN q : Makes(q[i]) => Before(c.kind, q[i].kind)
    <3>1. InOrder(p) /\ Drifted(p, s1)
      BY <2>1, Zenon
    <3>2. Drifted(q, s1)
      BY <1>2, <1>3, <3>1, RestKeeps, Zenon
    <3>3. /\ \A k : Treats(p, k) => Treats(q, k) \/ (Makes(c) /\ c.kind = k)
          /\ \A k : Removes(p, k) => Removes(q, k) \/ (c.verb = "remove" /\ c.kind = k)
      BY <1>2, <1>3, <3>1, RestKeeps, Zenon
    <3>4. Makes(c) => \A i \in DOMAIN q : Makes(q[i]) => Before(c.kind, q[i].kind)
      BY <1>2, <1>3, <3>1, RestKeeps, Zenon
    <3>5. QED BY <3>2, <3>3, <3>4, Zenon
  <2>8. ASSUME NEW i \in DOMAIN q, q[i].verb = "set"
        PROVE  s1'[q[i].kind] = <<"drift">>
    <3>1. Makes(q[i]) /\ q[i] \in Planned
      BY <2>4, <2>8 DEF Makes
    <3>2. q[i].kind \in Applying!Kind /\ s1[q[i].kind] = <<"drift">>
      BY <2>7, <2>8, <3>1, Zenon DEF Drifted, Planned
    <3>3. Makes(c) => q[i].kind # c.kind
      BY <2>7, <3>1, BeforeIsStrict, Zenon
    <3>4. QED BY <2>6, <3>2, <3>3, Zenon
  <2>9. ASSUME NEW a \in DOMAIN Order, a < Whole
        PROVE  Settled(s1'[Order[a]]) \/ Treats(q, Order[a])
    <3>1. Order[a] \in Applying!Kind
      BY Places, Zenon
    <3>2. Settled(s1[Order[a]]) \/ Treats(p, Order[a])
      BY <2>1, <2>9, Zenon DEF Covers
    <3>3. \/ s1'[Order[a]] = s1[Order[a]] /\ Settled(s1[Order[a]])
          \/ Treats(q, Order[a])
          \/ s1'[Order[a]] = <<"want">>
      BY <2>6, <2>7, <3>1, <3>2, Zenon
    <3>4. QED BY <3>3, Zenon DEF Settled
  <2>10. ASSUME NEW b \in DOMAIN Paths, Len(Order) + b < Whole, Paths[b] \in s2'
         PROVE  Removes(q, Paths[b])
    <3>1. Removes(p, Paths[b])
      BY <2>1, <2>6, <2>10, Zenon DEF Clears
    <3>2. QED BY <2>6, <2>7, <2>10, <3>1, Zenon
  <2>11. Drifted(q, s1') /\ Covers(q, s1', Whole) /\ Clears(q, s2', Whole)
    BY <2>8, <2>9, <2>10, Zenon DEF Drifted, Covers, Clears
  <2>12. QED BY <1>6, <2>1, <2>3, <2>11, Zenon
<1>11. SessionInv(s)'
  <2>1. s3'[s] = "change" /\ s8'[s] = s8[s] /\ s4'[s] = Whole
    BY <1>1, <1>4, Zenon
  <2>2. QED BY <1>5, <1>7, <1>10, <2>1, Zenon DEF SessionInv, Under
<1>12. QED BY <1>1, <1>8, <1>9, <1>11, ByOne, Zenon DEF Under

LEMMA ApplySshFailsKeeps ==
  ASSUME ApplyInv, NEW s \in Session, Applying!SshFails(s)
  PROVE  ApplyInv'
<1>1. /\ s3[s] \in Under /\ s9' \in 0..MaxSshFails /\ s8' = [s8 EXCEPT ![s] = FALSE]
      /\ UNCHANGED <<s4, s10>>
  BY ApplyAssumption DEF Applying!SshFails, ApplyInv, ApplyTypes, Under
<1>2. s8' \in [Session -> BOOLEAN] /\ s8'[s] = FALSE /\ \A t \in Session : t # s => s8'[t] = s8[t]
  BY <1>1, Zenon DEF ApplyInv, ApplyTypes
<1>3. CASE s3[s] = "change" /\ s5[s] # <<>>
  <2>1. /\ Applying!Effect(Head(s5[s])) \/ UNCHANGED <<s1, s2>>
        /\ s5' = [s5 EXCEPT ![s] = Tail(s5[s])] /\ s6' = [s6 EXCEPT ![s] = TRUE]
        /\ UNCHANGED <<s3, s7>>
    BY <1>3, Zenon DEF Applying!SshFails
  <2>2. /\ s1' \in [Applying!Kind -> Items] /\ s2' \subseteq Applying!Tagged
        /\ Tail(s5[s]) \in Seq(Planned)
        /\ InOrder(Tail(s5[s])) /\ Seen(Tail(s5[s]), Whole) /\ Missing(Tail(s5[s]), s1')
    BY <1>3, <2>1, HeadRuns, Zenon
  <2>3. s5' \in [Session -> Seq(Planned)] /\ s5'[s] = Tail(s5[s]) /\ s4[s] = Whole
    BY <1>3, <2>1, <2>2, Zenon DEF ApplyInv, ApplyTypes, SessionInv
  <2>4. ApplyTypes'
    BY <1>1, <1>2, <2>1, <2>2, <2>3, Zenon DEF ApplyInv, ApplyTypes
  <2>5. Elsewhere(s)
    BY <1>1, <1>2, <2>1, Zenon DEF Elsewhere, ApplyInv, ApplyTypes
  <2>6. SessionInv(s)'
    BY <1>1, <1>2, <1>3, <2>1, <2>2, <2>3, Zenon DEF SessionInv, Under
  <2>7. QED BY <1>1, <2>4, <2>5, <2>6, ByOne, Zenon
<1>4. CASE ~(s3[s] = "change" /\ s5[s] # <<>>)
  <2>1. /\ s3' = [s3 EXCEPT ![s] = "done"] /\ s7' = [s7 EXCEPT ![s] = "error"]
        /\ UNCHANGED <<s1, s2, s5, s6>>
    BY <1>4, Zenon DEF Applying!SshFails
  <2>2. ApplyTypes' /\ s3'[s] = "done"
    BY <1>1, <1>2, <2>1, Zenon DEF ApplyInv, ApplyTypes, Reports
  <2>3. Elsewhere(s)
    BY <1>1, <1>2, <2>1, Zenon DEF Elsewhere, ApplyInv, ApplyTypes
  <2>4. SessionInv(s)'
    BY <1>2, <2>2, Zenon DEF SessionInv, Under
  <2>5. QED BY <1>1, <2>2, <2>3, <2>4, ByOne, Zenon
<1>5. QED BY <1>3, <1>4, Zenon

\* An empty plan of a clean session leaves nothing to do.
LEMMA NothingToDo ==
  ASSUME ApplyTypes, Covers(<<>>, s1, Whole), Clears(<<>>, s2, Whole)
  PROVE  /\ s2 = {}
         /\ \A k \in Applying!Kind : Applying!classify(s1[k]) \in {"converged", "conflict"}
<1>1. ASSUME NEW k \in Applying!Kind
      PROVE  Applying!classify(s1[k]) \in {"converged", "conflict"}
  <2>1. PICK a \in DOMAIN Order : Order[a] = k
    BY <1>1, Zenon DEF Applying!Kind
  <2>2. a < Whole
    BY Places DEF Whole
  <2>3. ~Treats(<<>>, k)
    BY DEF Treats
  <2>4. Settled(s1[k])
    BY <2>1, <2>2, <2>3, Zenon DEF Covers
  <2>5. QED BY <2>4, SettledIs, Zenon
<1>2. ASSUME NEW k \in s2 PROVE FALSE
  <2>1. PICK b \in DOMAIN Paths : Paths[b] = k
    BY <1>2, Zenon DEF ApplyTypes, Applying!Tagged
  <2>2. Len(Order) + b < Whole
    BY Places DEF Whole
  <2>3. ~Removes(<<>>, k)
    BY DEF Removes
  <2>4. QED BY <1>2, <2>1, <2>2, <2>3, Zenon DEF Clears
<1>3. QED BY <1>1, <1>2, Zenon

LEMMA ConfirmKeeps ==
  ASSUME ApplyInv, NEW s \in Session, Applying!Confirm(s)
  PROVE  ApplyInv'
<1> DEFINE found == IF Applying!Desired /\ ~s6[s] THEN "converged" ELSE "not converged"
<1>1. /\ s3[s] = "change" /\ s5[s] = <<>> /\ s3' = [s3 EXCEPT ![s] = "done"]
      /\ s7' = [s7 EXCEPT ![s] = found]
      /\ UNCHANGED <<s1, s2, s4, s5, s6, s8, s9, s10>>
  BY Zenon DEF Applying!Confirm
<1>2. found \in {"converged", "not converged"}
  BY Zenon
<1> HIDE DEF found
<1>3. ApplyTypes' /\ Elsewhere(s) /\ s3'[s] = "done"
  BY <1>1, <1>2, Zenon DEF ApplyInv, ApplyTypes, Elsewhere, Reports
<1>4. SessionInv(s)'
  BY <1>3, Zenon DEF SessionInv, Under
<1>5. QED BY <1>1, <1>3, <1>4, ByOne, Zenon DEF Under

\* A session that ends, ends with the desired state (PassStep).
LEMMA PassHolds ==
  ASSUME ApplyInv, [Applying!Next]_Applying!vars
  PROVE  Applying!PassStep
<1> SUFFICES ASSUME NEW s \in Session, s3[s] # "done", s3'[s] = "done", s8'[s]
             PROVE  /\ s2' = {}
                    /\ \A k \in Applying!Kind :
                         Applying!classify(s1'[k]) \in {"converged", "conflict"}
                    /\ \/ s7'[s] = "converged"
                       \/ \E k \in Applying!Kind : Applying!classify(s1'[k]) = "conflict"
  BY Zenon DEF Applying!PassStep
<1> DEFINE Ends(t) == /\ s3[t] \in Under /\ s4[t] = Whole /\ s5[t] = <<>>
                      /\ s1' = s1 /\ s2' = s2 /\ s8' = s8
                      /\ s3' = [s3 EXCEPT ![t] = "done"]
                      /\ \/ s7' = [s7 EXCEPT ![t] = "converged"]
                         \/ s7'[t] = IF Applying!Desired /\ ~s6[t]
                                       THEN "converged" ELSE "not converged"
<1>1. ASSUME NEW t \in Session, Applying!Decide(t)
      PROVE  t = s /\ Ends(t)
  <2>1. s3[t] = "observe" /\ s4[t] = Whole /\ UNCHANGED <<s1, s2, s8>>
    BY <1>1, Places DEF Applying!Decide, ApplyInv, ApplyTypes, Whole
  <2>2. t = s /\ s5[t] = <<>>
    BY <1>1, Zenon DEF Applying!Decide, ApplyInv, ApplyTypes
  <2>3. s3' = [s3 EXCEPT ![t] = "done"] /\ s7' = [s7 EXCEPT ![t] = "converged"]
    BY <1>1, <2>2, Zenon DEF Applying!Decide
  <2>4. QED BY <2>1, <2>2, <2>3, Zenon DEF Under
<1>2. ASSUME NEW t \in Session, Applying!Confirm(t)
      PROVE  t = s /\ Ends(t)
  <2>1. /\ s3[t] = "change" /\ s5[t] = <<>> /\ s3' = [s3 EXCEPT ![t] = "done"]
        /\ s7' = [s7 EXCEPT ![t] = IF Applying!Desired /\ ~s6[t]
                                     THEN "converged" ELSE "not converged"]
        /\ UNCHANGED <<s1, s2, s8>>
    BY <1>2, Zenon DEF Applying!Confirm
  <2>2. t = s /\ s4[t] = Whole
    BY <2>1, Zenon DEF ApplyInv, ApplyTypes, SessionInv
  <2>3. s7'[t] = IF Applying!Desired /\ ~s6[t] THEN "converged" ELSE "not converged"
    BY <2>1, Zenon DEF ApplyInv, ApplyTypes
  <2>4. QED BY <2>1, <2>2, <2>3, Zenon DEF Under
<1>3. ASSUME NEW t \in Session, Applying!SshFails(t)
      PROVE  FALSE
  <2>1. s8' = [s8 EXCEPT ![t] = FALSE] /\ (s3' = s3 \/ s3' = [s3 EXCEPT ![t] = "done"])
    BY <1>3, Zenon DEF Applying!SshFails
  <2>2. QED BY <2>1, Zenon DEF ApplyInv, ApplyTypes
<1>4. ASSUME Ends(s)
      PROVE  /\ s2' = {}
             /\ \A k \in Applying!Kind :
                  Applying!classify(s1'[k]) \in {"converged", "conflict"}
             /\ \/ s7'[s] = "converged"
                \/ \E k \in Applying!Kind : Applying!classify(s1'[k]) = "conflict"
  <2>1. s8[s] = TRUE
    BY <1>4, Zenon DEF ApplyInv, ApplyTypes
  <2>2. s6[s] = FALSE /\ Covers(<<>>, s1, Whole) /\ Clears(<<>>, s2, Whole)
    BY <1>4, <2>1, Zenon DEF ApplyInv, SessionInv
  <2>3. /\ s2 = {}
        /\ \A k \in Applying!Kind : Applying!classify(s1[k]) \in {"converged", "conflict"}
    BY <2>2, NothingToDo, Zenon DEF ApplyInv
  <2>4. ASSUME ~ \E k \in Applying!Kind : Applying!classify(s1[k]) = "conflict"
        PROVE  s7'[s] = "converged"
    <3>1. Applying!Desired
      BY <2>3, <2>4, Zenon DEF Applying!Desired
    <3>2. QED BY <1>4, <2>2, <3>1, Zenon DEF ApplyInv, ApplyTypes
  <2>5. QED BY <1>4, <2>3, <2>4, Zenon
<1> HIDE DEF Ends
<1>5. CASE UNCHANGED s3
  BY <1>5, Zenon
<1>6. ASSUME NEW t \in Session, Applying!Start(t)
      PROVE  FALSE
  <2>1. s3' = [s3 EXCEPT ![t] = "observe"]
    BY <1>6, Zenon DEF Applying!Start
  <2>2. QED BY <2>1, Zenon DEF ApplyInv, ApplyTypes
<1>7. QED BY <1>1, <1>2, <1>3, <1>4, <1>5, <1>6, Zenon
          DEF Applying!Next, Applying!Observe, Applying!Scan, Applying!run_change,
              Applying!Edit, Applying!vars, Applying!session

\* Apply leaves one item of a resource, and several alone (OneOfEachStep).
LEMMA OneOfEachHolds ==
  ASSUME ApplyInv, [Applying!Next]_Applying!vars
  PROVE  Applying!OneOfEachStep
<1>1. ASSUME NEW t \in Session, Applying!run_change(t) \/ Applying!SshFails(t)
      PROVE  Applying!OneOfEachStep
  <2>1. CASE s1' = s1
    BY <2>1, Zenon DEF Applying!OneOfEachStep
  <2>2. CASE s1' # s1
    <3>1. /\ s3[t] = "change" /\ s5[t] # <<>>
          /\ Applying!Effect(Head(s5[t])) \/ UNCHANGED <<s1, s2>>
      BY <1>1, <2>2, Zenon DEF Applying!run_change, Applying!SshFails
    <3>2. QED BY <3>1, HeadRuns, Zenon DEF Applying!OneOfEachStep
  <2>3. QED BY <2>1, <2>2, Zenon
<1>2. ASSUME NEW k \in Applying!Kind, Applying!Edit(k)
      PROVE  s10' # s10
  <2>1. s10' = s10 + 1 /\ s10 \in Nat
    BY <1>2, ApplyAssumption DEF Applying!Edit, ApplyInv, ApplyTypes
  <2>2. QED BY <2>1
<1>3. CASE s1' = s1
  BY <1>3, Zenon DEF Applying!OneOfEachStep
<1>4. QED BY <1>1, <1>2, <1>3, Zenon
          DEF Applying!Next, Applying!Start, Applying!Observe, Applying!Scan, Applying!Decide,
              Applying!Confirm, Applying!OneOfEachStep, Applying!vars, Applying!session

LEMMA StartKeeps ==
  ASSUME ApplyInv, NEW s \in Session, Applying!Start(s)
  PROVE  ApplyInv'
<1>1. /\ s3[s] = "idle" /\ Applying!Active = {} /\ s3' = [s3 EXCEPT ![s] = "observe"]
      /\ UNCHANGED <<s1, s2, s4, s5, s6, s7, s9, s10>>
  BY Zenon DEF Applying!Start
<1>2. s8' = [t \in Session |-> s8[t] /\ (t \in {s} \cup Applying!Active => Applying!Active = {})]
  BY Zenon DEF Applying!Start
<1>3. s8' \in [Session -> BOOLEAN] /\ \A t \in Session : s8'[t] = s8[t]
  <2>1. s8 \in [Session -> BOOLEAN]
    BY Zenon DEF ApplyInv, ApplyTypes
  <2>2. QED BY <1>1, <1>2, <2>1, Zenon
<1>4. \A t \in Session : s3[t] \notin Under
  BY <1>1, Zenon DEF Applying!Active, Under, ApplyInv, ApplyTypes
<1>5. s3' \in [Session -> {"idle", "observe", "change", "done"}] /\ s3'[s] = "observe"
      /\ \A t \in Session : t # s => s3'[t] = s3[t]
  BY <1>1, Zenon DEF ApplyInv, ApplyTypes
<1>6. ApplyTypes'
  BY <1>1, <1>3, <1>5, Zenon DEF ApplyInv, ApplyTypes
<1>7. OneActive'
  BY <1>4, <1>5, Zenon DEF OneActive
<1>8. SessionInv(s)'
  <2>1. s4'[s] = 1 /\ s5'[s] = <<>> /\ s6'[s] = FALSE
    BY <1>1, Zenon DEF ApplyInv, SessionInv
  <2>2. InOrder(<<>>) /\ Seen(<<>>, 1) /\ Missing(<<>>, s1') /\ Drifted(<<>>, s1')
    BY DEF InOrder, Seen, Missing, Drifted
  <2>3. Covers(<<>>, s1', 1) /\ Clears(<<>>, s2', 1)
    BY Places DEF Covers, Clears
  <2>4. QED BY <1>5, <2>1, <2>2, <2>3, Zenon DEF SessionInv, Under
<1>9. ASSUME NEW t \in Session, t # s
      PROVE  SessionInv(t)'
  <2>1. SessionInv(t) /\ s3[t] \notin Under /\ s3[t] # "change"
    BY <1>4, Zenon DEF ApplyInv, Under
  <2>2. s3'[t] = s3[t] /\ s8'[t] = s8[t]
    BY <1>3, <1>5, <1>9, Zenon
  <2>3. QED BY <1>1, <2>1, <2>2, Zenon DEF SessionInv
<1>10. QED BY <1>6, <1>7, <1>8, <1>9, Zenon DEF ApplyInv

LEMMA EditKeeps ==
  ASSUME ApplyInv, NEW k \in Applying!Kind, Applying!Edit(k)
  PROVE  ApplyInv'
<1>1. /\ s10' \in 0..MaxEdits /\ s1[k] # <<>>
      /\ \/ s1' = [s1 EXCEPT ![k] = Tail(s1[k])]
         \/ s1' = [s1 EXCEPT ![k] = [i \in DOMAIN s1[k] |-> "drift"]]
      /\ UNCHANGED <<s2, s3, s4, s5, s6, s7, s9>>
  BY ApplyAssumption DEF Applying!Edit, ApplyInv, ApplyTypes
<1>2. PICK x : /\ s1' = [s1 EXCEPT ![k] = x]
               /\ x = Tail(s1[k]) \/ x = [i \in DOMAIN s1[k] |-> "drift"]
  BY <1>1, Zenon
<1>3. x \in Items /\ Len(x) <= Len(s1[k]) /\ Len(x) \in Nat /\ Len(s1[k]) \in Nat
  <2>1. s1[k] \in Seq(Applying!Item)
    BY Zenon DEF ApplyInv, ApplyTypes, Items
  <2>2. Len(s1[k]) \in Nat /\ DOMAIN s1[k] = 1..Len(s1[k]) /\ Len(s1[k]) > 0
    BY <1>1, <2>1
  <2>3. CASE x = Tail(s1[k])
    BY <2>1, <2>2, <2>3, <1>1 DEF Items
  <2>4. CASE x = [i \in DOMAIN s1[k] |-> "drift"]
    <3>1. x \in Seq(Applying!Item) /\ Len(x) = Len(s1[k])
      BY <2>2, <2>4 DEF Applying!Item
    <3>2. QED BY <2>2, <3>1 DEF Items
  <2>5. QED BY <1>2, <2>3, <2>4, Zenon
<1>10. /\ s1' \in [Applying!Kind -> Items] /\ s1'[k] = x
       /\ \A l \in Applying!Kind : l # k => s1'[l] = s1[l]
  BY <1>2, <1>3, Zenon DEF ApplyInv, ApplyTypes
<1>4. s8' = [s \in Session |-> s8[s] /\ s \notin Applying!Active]
  BY Zenon DEF Applying!Edit
<1>5. /\ s8' \in [Session -> BOOLEAN]
      /\ \A s \in Session : s8'[s] = TRUE => s8[s] = TRUE /\ s \notin Applying!Active
  <2>1. s8 \in [Session -> BOOLEAN]
    BY Zenon DEF ApplyInv, ApplyTypes
  <2>2. QED BY <1>4, <2>1, Zenon
<1>6. ApplyTypes'
  BY <1>1, <1>5, <1>10, Zenon DEF ApplyInv, ApplyTypes
<1>7. OneActive'
  BY <1>1, Zenon DEF ApplyInv, OneActive
<1>8. ASSUME NEW s \in Session
      PROVE  SessionInv(s)'
  <2>1. SessionInv(s)
    BY Zenon DEF ApplyInv
  <2>2. s8'[s] = TRUE => s8[s] = TRUE /\ s3[s] \notin Under
    BY <1>5, <1>8, Zenon DEF Applying!Active, Under
  <2>3. ASSUME s3[s] \in Under
        PROVE  Missing(s5[s], s1')
    <3> SUFFICES ASSUME NEW i \in DOMAIN s5[s]
                 PROVE  /\ s5[s][i].verb = "add" => s1'[s5[s][i].kind] = <<>>
                        /\ s5[s][i].verb = "set" => Len(s1'[s5[s][i].kind]) <= 1
      BY Zenon DEF Missing
    <3>1. /\ s5[s][i].verb = "add" => s1[s5[s][i].kind] = <<>>
          /\ s5[s][i].verb = "set" => Len(s1[s5[s][i].kind]) <= 1
      BY <2>1, <2>3, Zenon DEF SessionInv, Missing
    <3>2. s5[s] \in Seq(Planned)
      BY Zenon DEF ApplyInv, ApplyTypes
    <3>3. s5[s][i] \in Planned
      BY <3>2
    <3>4. s5[s][i].kind \in Applying!Kind
      BY <3>3, Zenon DEF Planned
    <3>5. CASE s5[s][i].kind # k
      BY <1>10, <3>1, <3>4, <3>5, Zenon
    <3>6. CASE s5[s][i].kind = k
      <4>1. s5[s][i].verb # "add"
        BY <1>1, <3>1, <3>6, Zenon
      <4>2. Len(s1[k]) <= 1 => Len(x) <= 1
        BY <1>3
      <4>3. QED BY <1>10, <3>1, <3>6, <4>1, <4>2, Zenon
    <3>7. QED BY <3>5, <3>6, Zenon
  <2>4. QED BY <1>1, <2>1, <2>2, <2>3, Zenon DEF SessionInv
<1>9. QED BY <1>6, <1>7, <1>8, Zenon DEF ApplyInv

LEMMA ApplyInit == Applying!Init => ApplyInv
<1> SUFFICES ASSUME Applying!Init PROVE ApplyInv
  BY Zenon
<1>1. ApplyTypes
  <2>1. s1 \in [Applying!Kind -> Items]
    <3>1. ASSUME NEW k \in Applying!Kind
          PROVE  Applying!Found(k) \subseteq Items
      BY ApplyAssumption DEF Applying!Found, Items
    <3>2. QED BY <3>1, Zenon DEF Applying!Init
  <2>2. 1 \in 1..Whole /\ <<>> \in Seq(Planned) /\ 0 \in 0..MaxSshFails /\ 0 \in 0..MaxEdits
    BY Places, ApplyAssumption DEF Whole
  <2>3. QED BY <2>1, <2>2, Zenon DEF Applying!Init, ApplyTypes, Reports
<1>2. \A s \in Session : s3[s] = "idle" /\ s4[s] = 1 /\ s5[s] = <<>> /\ s6[s] = FALSE
  BY Zenon DEF Applying!Init
<1>3. OneActive /\ \A s \in Session : SessionInv(s)
  BY <1>2, Zenon DEF OneActive, SessionInv, Under
<1>4. QED BY <1>1, <1>3, Zenon DEF ApplyInv

LEMMA ApplyStep ==
  ASSUME ApplyInv, [Applying!Next]_Applying!vars
  PROVE  ApplyInv'
<1>1. CASE UNCHANGED Applying!vars
  <2>1. UNCHANGED <<s1, s2, s3, s4, s5, s6, s7, s8, s9, s10>>
    BY <1>1, Zenon DEF Applying!vars, Applying!session
  <2>2. ApplyTypes' /\ OneActive'
    BY <2>1, Zenon DEF ApplyInv, ApplyTypes, OneActive
  <2>3. \A s \in Session : SessionInv(s)'
    BY <2>1, Zenon DEF ApplyInv, SessionInv
  <2>4. QED BY <2>2, <2>3, Zenon DEF ApplyInv
<1>2. QED BY <1>1, StartKeeps, ObserveKeeps, ScanKeeps, DecideKeeps, RunChangeKeeps,
             ApplySshFailsKeeps, ConfirmKeeps, EditKeeps, Zenon DEF Applying!Next

LEMMA ApplyHolds ==
  ASSUME ApplyInv
  PROVE  Applying!TypeOK
<1>1. ApplyTypes
  BY Zenon DEF ApplyInv
<1>4. Applying!TypeOK
  <2>1. ASSUME NEW k \in Applying!Kind, NEW i \in DOMAIN s1[k]
        PROVE  s1[k][i] \in Applying!Item
    <3>1. s1[k] \in Items
      BY <1>1, Zenon DEF ApplyTypes
    <3>2. QED BY <2>1, <3>1 DEF Items
  <2>2. ASSUME NEW s \in Session, NEW i \in DOMAIN s5[s]
        PROVE  s5[s][i] \in Planned
    <3>1. s5[s] \in Seq(Planned)
      BY <1>1, Zenon DEF ApplyTypes
    <3>2. QED BY <2>2, <3>1
  <2>3. QED BY <1>1, <2>1, <2>2, Zenon DEF ApplyTypes, Applying!TypeOK, Planned, Whole
<1>5. QED BY <1>4, Zenon

-----------------------------------------------------------------------------
(* meshctl deploy: s1 = boxes, s2 = env, s3 = proc, s4 = printed, s5 = log, *)
(* s6 = at, s7 = pc, s8 = cmd, s9 = result, s10 = runs, s12 = reboots.     *)

Commands == {Nil} \cup [id : {"own", "given"}, run : Nat]
Box == [cmd : Commands, up : BOOLEAN]
Process == [id : {"none", "own", "other"}, run : Nat]
LogEntry == [id : {"own", "other"}, run : 0..MaxDeploys + MaxReboots + 1]
Steps == {"network", "envs_remove", "envs_add", "remove", "add", "start"}

DeployTypes ==
  /\ s1 \in [Deploying!Router -> Seq(Box)] /\ s2 \in [Deploying!Router -> BOOLEAN]
  /\ s3 \in [Deploying!Router -> Process] /\ s4 \in [Deploying!Router -> BOOLEAN]
  /\ s5 \in [Deploying!Router -> Seq(LogEntry)]
  /\ s6 \in 0..Len(Routers) /\ s7 \in Steps \cup {"idle", "resolve", "wait"}
  /\ (s6 = 0 <=> s7 = "idle")
  /\ s8 \in Commands /\ s9 \in [Deploying!Router -> {"none", "ok", "failed"}]
  /\ s10 \in 0..MaxDeploys /\ s12 \in 0..MaxReboots

\* How far the deployment of router r is when the next command is of step pc.
Reached(r, pc) ==
  /\ pc \in {"remove", "add", "start", "wait"} => s2[r]
  /\ pc = "add" => s1[r] = <<>>
  /\ pc \in {"start", "wait"} => Len(s1[r]) = 1
  /\ pc = "wait" => s3[r].id = "own"

\* The j-th router's container has yet to be started in this run of deploy.
Pending(j) == s6 # 0 /\ (j > s6 \/ (j = s6 /\ s7 # "wait"))

\* A container has been started at most once in each run, once per reboot, and
\* once before.
StartsInv ==
  \A j \in DOMAIN Routers :
    s3[Routers[j]].run + (IF Pending(j) THEN 1 ELSE 0) <= s10 + s12 + 1

\* What the present process has printed is the last entry of the log.
PrintedInv ==
  \A r \in Deploying!Router :
    s4[r] /\ s3[r].id # "none" => s5[r] # <<>> /\ s5[r][Len(s5[r])] = s3[r]

DeployInv == /\ DeployTypes /\ (s6 # 0 => Reached(Routers[s6], s7))
             /\ StartsInv /\ PrintedInv

LEMMA RouterOfPlace ==
  ASSUME NEW j \in DOMAIN Routers
  PROVE  j \in Nat \ {0} /\ Routers[j] \in Deploying!Router
BY DeployAssumption DEF Deploying!Router

LEMMA DeployInit == Deploying!Init => DeployInv
<1> SUFFICES ASSUME Deploying!Init PROVE DeployInv
  BY Zenon
<1> DEFINE own(k) == [id |-> "own", run |-> k]
           dead == [id |-> "none", run |-> 0]
<1>1. PICK old \in SUBSET Deploying!Router :
        /\ s1 = [r \in Deploying!Router |-> IF r \in old THEN Deploying!Installed(r) ELSE <<>>]
        /\ s2 = [r \in Deploying!Router |-> r \in old]
        /\ s3 = [r \in Deploying!Router |-> IF r \in old THEN own(1) ELSE dead]
        /\ s4 = [r \in Deploying!Router |-> r \in old]
        /\ s5 = [r \in Deploying!Router |-> IF r \in old THEN <<own(1)>> ELSE <<>>]
  BY Zenon DEF Deploying!Init, Deploying!Dead, Deploying!Blob
<1>2. /\ s6 = 0 /\ s7 = "idle" /\ s8 = Nil /\ s10 = 0 /\ s12 = 0
      /\ s9 = [r \in Deploying!Router |-> "none"]
  BY Zenon DEF Deploying!Init
<1>3. \A r \in Deploying!Router : Deploying!Installed(r) \in Seq(Box)
  <2>1. own(0) \in Commands /\ Nil \in Commands
    BY DEF Commands
  <2> HIDE DEF own
  <2>2. \A r \in Deploying!Router :
          Deploying!Installed(r) = <<[cmd |-> IF Listener[r] = Nil THEN Nil ELSE own(0),
                                      up |-> TRUE]>>
    BY Zenon DEF Deploying!Installed, Deploying!Blob, own
  <2>3. \A c \in Commands : [cmd |-> c, up |-> TRUE] \in Box
    BY DEF Box
  <2>4. \A x \in Box : <<x>> \in Seq(Box)
    OBVIOUS
  <2>5. QED BY <2>1, <2>2, <2>3, <2>4, Zenon
<1>4. <<own(1)>> \in Seq(LogEntry) /\ own(1) \in Process /\ dead \in Process
  <2>1. own(1) \in LogEntry
    BY DeployAssumption DEF LogEntry
  <2>2. QED BY <2>1 DEF Process
<1>5. StartsInv
  <2>1. \A j \in DOMAIN Routers : ~Pending(j)
    BY <1>2, Zenon DEF Pending
  <2>2. \A j \in DOMAIN Routers : s3[Routers[j]].run \in {0, 1}
    BY <1>1, RouterOfPlace
  <2>3. QED BY <1>2, <2>1, <2>2 DEF StartsInv
<1>8. PrintedInv
  <2>1. <<own(1)>> # <<>> /\ Len(<<own(1)>>) = 1 /\ <<own(1)>>[1] = own(1)
    OBVIOUS
  <2> HIDE DEF own, dead
  <2>2. QED BY <1>1, <2>1, Zenon DEF PrintedInv
<1> HIDE DEF own, dead
<1>6. DeployTypes
  BY <1>1, <1>2, <1>3, <1>4, DeployAssumption DEF DeployTypes, Commands, Steps
<1>7. QED BY <1>2, <1>5, <1>6, <1>8, Zenon DEF DeployInv

\* read_blob_for_id finds a blob with the listener's own id, or makes one up;
\* if the last one in the log has it, that one.
LEMMA BlobIsOwn ==
  ASSUME DeployTypes, NEW r \in Deploying!Router
  PROVE  /\ Deploying!read_blob_for_id(r) \in Commands
         /\ Deploying!read_blob_for_id(r).id = "own"
         /\ s5[r] # <<>> /\ s5[r][Len(s5[r])].id = "own" =>
              Deploying!read_blob_for_id(r) = s5[r][Len(s5[r])]
<1> DEFINE newest == {i \in DOMAIN s5[r] :
                        /\ s5[r][i].id = "own"
                        /\ \A j \in DOMAIN s5[r] : s5[r][j].id = "own" => j <= i}
           i == CHOOSE i \in newest : TRUE
<1>1. s5[r] \in Seq(LogEntry)
  BY Zenon DEF DeployTypes
<1>2. \A j \in DOMAIN s5[r] : s5[r][j] \in LogEntry
  BY <1>1
<1>3. ASSUME newest # {}
      PROVE  s5[r][i] \in Commands /\ s5[r][i].id = "own"
  <2>1. i \in newest
    BY <1>3, Zenon
  <2>2. s5[r][i] \in LogEntry /\ s5[r][i].id = "own"
    BY <1>2, <2>1, Zenon
  <2>3. QED BY <2>2, DeployAssumption DEF Commands, LogEntry
<1>4. Deploying!read_blob_for_id(r) = IF newest = {} THEN [id |-> "own", run |-> 0] ELSE s5[r][i]
  BY Zenon DEF Deploying!read_blob_for_id, Deploying!Blob
<1>5. ASSUME s5[r] # <<>>, s5[r][Len(s5[r])].id = "own"
      PROVE  newest # {} /\ i = Len(s5[r])
  <2>1. /\ Len(s5[r]) \in DOMAIN s5[r] /\ Len(s5[r]) \in Nat
        /\ \A j \in DOMAIN s5[r] : j <= Len(s5[r]) /\ j \in Nat
    BY <1>1, <1>5
  <2>2. Len(s5[r]) \in newest
    BY <1>5, <2>1, Zenon
  <2>3. i \in newest
    BY <2>2, Zenon
  <2>4. i <= Len(s5[r]) /\ Len(s5[r]) <= i /\ i \in Nat
    BY <1>5, <2>1, <2>3, Zenon
  <2>5. QED BY <2>1, <2>2, <2>4
<1> HIDE DEF newest, i
<1>6. [id |-> "own", run |-> 0] \in Commands /\ [id |-> "own", run |-> 0].id = "own"
  BY DEF Commands
<1>7. QED BY <1>3, <1>4, <1>5, <1>6, Zenon

\* What is printed after a step was printed by the same process before it.
Fresh(r) ==
  \A q \in Deploying!Router :
    s4'[q] /\ s3'[q].id # "none" => s4[q] /\ s3'[q] = s3[q]

\* A container that starts has the router's key if the env list has it.
LEMMA BootsProc ==
  ASSUME DeployTypes, NEW r \in Deploying!Router, NEW up \in BOOLEAN, Deploying!Boots(r, up)
  PROVE  /\ s3' \in [Deploying!Router -> Process] /\ s4' \in [Deploying!Router -> BOOLEAN]
         /\ \A q \in Deploying!Router : q # r => s3'[q] = s3[q]
         /\ up => s3'[r] = [id |-> IF s2[r] THEN "own" ELSE "other", run |-> s3[r].run + 1]
         /\ ~up => s3'[r].run = s3[r].run
         /\ Fresh(r)
<1>1. s3 \in [Deploying!Router -> Process] /\ s4 \in [Deploying!Router -> BOOLEAN]
      /\ s3[r] \in Process
  BY Zenon DEF DeployTypes
<1>2. CASE up
  <2> DEFINE id == IF s2[r] THEN "own" ELSE "other"
  <2>1. s3' = [s3 EXCEPT ![r] = [id |-> id, run |-> s3[r].run + 1]]
        /\ s4' = [s4 EXCEPT ![r] = FALSE]
    BY <1>2, Zenon DEF Deploying!Boots, Deploying!Blob
  <2>2. id \in {"own", "other"}
    BY Zenon
  <2> HIDE DEF id
  <2>3. [id |-> id, run |-> s3[r].run + 1] \in Process
    BY <1>1, <2>2 DEF Process
  <2>4. QED BY <1>1, <1>2, <2>1, <2>3, Zenon DEF id, Fresh
<1>3. CASE ~up
  <2>1. /\ s3' \in [Deploying!Router -> Process] /\ s4' = s4 /\ s3'[r].run = s3[r].run
        /\ s3'[r].id = "none" /\ \A q \in Deploying!Router : q # r => s3'[q] = s3[q]
    BY <1>1, <1>3 DEF Deploying!Boots, Process
  <2>2. QED BY <1>1, <1>3, <2>1, Zenon DEF Fresh
<1>4. QED BY <1>2, <1>3, Zenon

\* The containers of a router change their states together.
LEMMA BoxesTurn ==
  ASSUME NEW bs \in Seq(Box), NEW up \in BOOLEAN
  PROVE  /\ [i \in DOMAIN bs |-> [bs[i] EXCEPT !.up = up]] \in Seq(Box)
         /\ Len([i \in DOMAIN bs |-> [bs[i] EXCEPT !.up = up]]) = Len(bs)
<1> DEFINE turned(i) == [bs[i] EXCEPT !.up = up]
<1>1. Len(bs) \in Nat /\ DOMAIN bs = 1..Len(bs) /\ \A i \in 1..Len(bs) : bs[i] \in Box
  OBVIOUS
<1>2. \A i \in 1..Len(bs) : turned(i) \in Box
  BY <1>1, Zenon DEF Box
<1> HIDE DEF turned
<1>3. [i \in 1..Len(bs) |-> turned(i)] \in [1..Len(bs) -> Box]
  BY <1>2, Zenon
<1>4. /\ [i \in 1..Len(bs) |-> turned(i)] \in Seq(Box)
      /\ Len([i \in 1..Len(bs) |-> turned(i)]) = Len(bs)
  BY <1>1, <1>3
<1>5. QED BY <1>1, <1>4, Zenon DEF turned

\* What a command of a step does, whether its answer is lost or not.
Touched(r) ==
  /\ s1' \in [Deploying!Router -> Seq(Box)] /\ s2' \in [Deploying!Router -> BOOLEAN]
  /\ s3' \in [Deploying!Router -> Process] /\ s4' \in [Deploying!Router -> BOOLEAN]
  /\ \A q \in Deploying!Router : q # r => s3'[q] = s3[q]
  /\ s3'[r].run <= s3[r].run + (IF s7 = "start" THEN 1 ELSE 0)
  /\ Fresh(r)

LEMMA PrintedKept ==
  ASSUME PrintedInv, NEW r, Fresh(r), s5' = s5
  PROVE  PrintedInv'
BY Zenon DEF PrintedInv, Fresh

LEMMA EffectTouches ==
  ASSUME DeployInv, s6 # 0, Deploying!Effect, NEW r, r = Routers[s6],
         NEW next, next = Deploying!After[s7]
  PROVE  /\ Touched(r)
         /\ s7 \in Steps /\ next \in Steps \cup {"wait"}
         /\ Reached(r, next)'
<1>1. r \in Deploying!Router /\ Deploying!me = r
  BY RouterOfPlace, DeployAssumption DEF DeployInv, DeployTypes, Deploying!me
<1>2. /\ s1 \in [Deploying!Router -> Seq(Box)] /\ s2 \in [Deploying!Router -> BOOLEAN]
      /\ s3 \in [Deploying!Router -> Process] /\ s4 \in [Deploying!Router -> BOOLEAN]
      /\ s1[r] \in Seq(Box) /\ s3[r] \in Process /\ s3[r].run \in Nat /\ s8 \in Commands
  BY <1>1, Zenon DEF DeployInv, DeployTypes, Process
<1>3. Reached(r, s7)
  BY Zenon DEF DeployInv
<1>4. CASE s7 = "network" /\ UNCHANGED <<s1, s2, s3, s4>>
  <2>1. next = "envs_remove"
    BY <1>4, Zenon DEF Deploying!After
  <2>2. QED BY <1>1, <1>2, <1>4, <2>1 DEF Touched, Fresh, Steps, Reached
<1>5. CASE s7 = "envs_remove" /\ Deploying!EnvsRemove
  <2>1. next = "envs_add"
    BY <1>5, Zenon DEF Deploying!After
  <2>2. QED BY <1>1, <1>2, <1>5, <2>1 DEF Touched, Fresh, Steps, Reached, Deploying!EnvsRemove
<1>6. CASE s7 = "envs_add" /\ Deploying!EnvsAdd
  <2>1. next = "remove"
    BY <1>6, Zenon DEF Deploying!After
  <2>2. s2'[r]
    BY <1>1, <1>2, <1>6, Zenon DEF Deploying!EnvsAdd
  <2>3. QED BY <1>1, <1>2, <1>6, <2>1, <2>2 DEF Touched, Fresh, Steps, Reached, Deploying!EnvsAdd
<1>7. CASE s7 = "remove" /\ Deploying!remove_existing
  <2>1. next = "add"
    BY <1>7, Zenon DEF Deploying!After
  <2>2. /\ s1' = [s1 EXCEPT ![r] = <<>>] /\ Deploying!Boots(r, FALSE) /\ s2' = s2
    BY <1>1, <1>7, Zenon DEF Deploying!remove_existing
  <2>3. s1' \in [Deploying!Router -> Seq(Box)] /\ s1'[r] = <<>>
    BY <1>1, <1>2, <2>2
  <2>4. /\ s3' \in [Deploying!Router -> Process] /\ s4' \in [Deploying!Router -> BOOLEAN]
        /\ \A q \in Deploying!Router : q # r => s3'[q] = s3[q]
        /\ s3'[r].run = s3[r].run /\ Fresh(r)
    BY <1>1, <2>2, BootsProc, Zenon DEF DeployInv
  <2>5. Touched(r)
    BY <1>2, <1>7, <2>2, <2>3, <2>4 DEF Touched
  <2>6. QED BY <1>3, <1>7, <2>1, <2>2, <2>3, <2>5, Zenon DEF Steps, Reached
<1>8. CASE s7 = "add" /\ Deploying!Add
  <2>1. next = "start"
    BY <1>8, Zenon DEF Deploying!After
  <2>2. /\ s1' = [s1 EXCEPT ![r] = Append(@, [cmd |-> s8, up |-> FALSE])]
        /\ UNCHANGED <<s2, s3, s4>>
    BY <1>1, <1>8, Zenon DEF Deploying!Add
  <2>3. s1[r] = <<>>
    BY <1>3, <1>8, Zenon DEF Reached
  <2>4. [cmd |-> s8, up |-> FALSE] \in Box
    BY <1>2, Zenon DEF Box
  <2> DEFINE new == [cmd |-> s8, up |-> FALSE]
  <2> HIDE DEF new
  <2>5. s1' = [s1 EXCEPT ![r] = Append(@, new)] /\ new \in Box
    BY <2>2, <2>4, Zenon DEF new
  <2>6. Len(s1'[r]) = 1 /\ s1' \in [Deploying!Router -> Seq(Box)]
    BY <1>1, <1>2, <2>3, <2>5
  <2>7. QED BY <1>1, <1>2, <1>3, <1>8, <2>1, <2>2, <2>6 DEF Touched, Fresh, Steps, Reached
<1>9. CASE s7 = "start" /\ Deploying!Begin
  <2>1. next = "wait"
    BY <1>9, Zenon DEF Deploying!After
  <2>2. /\ s1' = [s1 EXCEPT ![r] = [i \in DOMAIN s1[r] |-> [s1[r][i] EXCEPT !.up = TRUE]]]
        /\ Deploying!Boots(r, s1[r] # <<>>) /\ s2' = s2
    BY <1>1, <1>9, Zenon DEF Deploying!Begin
  <2>3. s2[r] /\ Len(s1[r]) = 1 /\ s1[r] # <<>>
    <3>1. s2[r] /\ Len(s1[r]) = 1
      BY <1>3, <1>9, Zenon DEF Reached
    <3>2. s1[r] # <<>>
      <4>1. Len(s1[r]) = 1
        BY <3>1, Zenon
      <4>2. QED BY <4>1
    <3>3. QED BY <3>1, <3>2, Zenon
  <2>4. s1' \in [Deploying!Router -> Seq(Box)] /\ Len(s1'[r]) = 1
    <3> DEFINE turned == [i \in DOMAIN s1[r] |-> [s1[r][i] EXCEPT !.up = TRUE]]
    <3>1. turned \in Seq(Box) /\ Len(turned) = 1
      BY <1>2, <2>3, BoxesTurn, Zenon
    <3> HIDE DEF turned
    <3>2. s1' = [s1 EXCEPT ![r] = turned]
      BY <2>2, Zenon DEF turned
    <3>3. QED BY <1>1, <1>2, <3>1, <3>2, Zenon
  <2>5. /\ s3' \in [Deploying!Router -> Process] /\ s4' \in [Deploying!Router -> BOOLEAN]
        /\ \A q \in Deploying!Router : q # r => s3'[q] = s3[q]
        /\ s3'[r] = [id |-> "own", run |-> s3[r].run + 1] /\ Fresh(r)
    BY <1>1, <2>2, <2>3, BootsProc, Zenon DEF DeployInv
  <2>6. QED BY <1>2, <1>9, <2>1, <2>2, <2>3, <2>4, <2>5 DEF Touched, Steps, Reached
<1>10. QED BY <1>4, <1>5, <1>6, <1>7, <1>8, <1>9, Zenon DEF Deploying!Effect

\* The container may also be stopped and not removed.
LEMMA StopTouches ==
  ASSUME DeployInv, s6 # 0, s7 = "remove", Deploying!StopOnly, NEW r, r = Routers[s6]
  PROVE  Touched(r)
<1>1. r \in Deploying!Router /\ Deploying!me = r
  BY RouterOfPlace, DeployAssumption DEF DeployInv, DeployTypes, Deploying!me
<1>2. /\ s1 \in [Deploying!Router -> Seq(Box)] /\ s2 \in [Deploying!Router -> BOOLEAN]
      /\ s1[r] \in Seq(Box) /\ s3[r].run \in Nat
  BY <1>1, Zenon DEF DeployInv, DeployTypes, Process
<1> DEFINE turned == [i \in DOMAIN s1[r] |-> [s1[r][i] EXCEPT !.up = FALSE]]
<1>3. s1' = [s1 EXCEPT ![r] = turned] /\ Deploying!Boots(r, FALSE) /\ s2' = s2
  BY <1>1, Zenon DEF Deploying!StopOnly
<1>4. turned \in Seq(Box)
  BY <1>2, BoxesTurn, Zenon
<1> HIDE DEF turned
<1>5. s1' \in [Deploying!Router -> Seq(Box)]
  BY <1>1, <1>2, <1>3, <1>4, Zenon
<1>6. /\ s3' \in [Deploying!Router -> Process] /\ s4' \in [Deploying!Router -> BOOLEAN]
      /\ \A q \in Deploying!Router : q # r => s3'[q] = s3[q]
      /\ s3'[r].run = s3[r].run /\ Fresh(r)
  BY <1>1, <1>3, BootsProc, Zenon DEF DeployInv
<1>7. QED BY <1>2, <1>3, <1>5, <1>6 DEF Touched

\* The count of starts goes on while a step of deploy leaves off at s6 or goes
\* on to the next router.
LEMMA StartsKept ==
  ASSUME DeployInv, s6 # 0, Touched(Routers[s6]), s10' = s10, s12' = s12,
         s7 = "wait" => s3' = s3,
         \/ s6' = s6 /\ s7 # "wait" /\ (s7' = "wait" <=> s7 = "start")
         \/ s6' = IF s6 = Len(Routers) THEN 0 ELSE s6 + 1
  PROVE  StartsInv'
<1> SUFFICES ASSUME NEW j \in DOMAIN Routers
             PROVE  s3'[Routers[j]].run + (IF Pending(j)' THEN 1 ELSE 0) <= s10 + s12 + 1
  BY Zenon DEF StartsInv
<1>1. /\ Routers[j] \in Deploying!Router /\ j \in Nat \ {0} /\ s6 \in DOMAIN Routers
      /\ s6 \in Nat /\ Len(Routers) \in Nat /\ j <= Len(Routers)
      /\ Routers[s6] \in Deploying!Router /\ s10 \in Nat /\ s12 \in Nat
  BY RouterOfPlace, DeployAssumption DEF DeployInv, DeployTypes
<1>2. s3[Routers[j]].run + (IF Pending(j) THEN 1 ELSE 0) <= s10 + s12 + 1
  BY Zenon DEF DeployInv, StartsInv
<1>3. s3[Routers[j]].run \in Nat /\ s3'[Routers[j]].run \in Nat
  BY <1>1, Zenon DEF DeployInv, DeployTypes, Touched, Process
<1>4. Pending(j)' = (s6' # 0 /\ (j > s6' \/ (j = s6' /\ s7' # "wait")))
  BY Zenon DEF Pending
<1>5. CASE j = s6
  <2>1. s3'[Routers[j]].run <= s3[Routers[j]].run + (IF s7 = "start" THEN 1 ELSE 0)
    BY <1>5, Zenon DEF Touched
  <2>2. CASE s7 = "wait"
    <3>1. ~Pending(j)' /\ ~Pending(j)
      BY <1>1, <1>5, <2>2 DEF Pending
    <3>2. QED BY <1>2, <2>2, <3>1, Zenon
  <2>3. CASE s7 # "wait"
    BY <1>1, <1>2, <1>3, <1>4, <1>5, <2>1, <2>3 DEF Pending
  <2>4. QED BY <2>2, <2>3, Zenon
<1>6. CASE j # s6
  <2>1. Routers[j] # Routers[s6]
    BY <1>1, <1>6, DeployAssumption, Zenon
  <2>2. s3'[Routers[j]] = s3[Routers[j]]
    BY <1>1, <2>1, Zenon DEF Touched
  <2>3. Pending(j)' => Pending(j)
    BY <1>1, <1>4, <1>6 DEF Pending
  <2>4. QED BY <1>1, <1>2, <1>3, <2>2, <2>3
<1>7. QED BY <1>5, <1>6, Zenon

\* A deployment ends, whatever came of it.
LEMMA FinishKeeps ==
  ASSUME DeployInv, s6 # 0, Touched(Routers[s6]), s7 = "wait" => s3' = s3,
         NEW outcome \in {"ok", "failed"}, Deploying!Finish(outcome),
         UNCHANGED <<s5, s8, s10, s12>>
  PROVE  DeployInv'
<1>1. /\ s9' = [s9 EXCEPT ![Routers[s6]] = outcome]
      /\ s6' = IF s6 = Len(Routers) THEN 0 ELSE s6 + 1
      /\ s7' = IF s6 = Len(Routers) THEN "idle" ELSE "resolve"
  BY Zenon DEF Deploying!Finish, Deploying!me
<1>2. Len(Routers) \in Nat /\ s6 \in 1..Len(Routers) /\ Routers[s6] \in Deploying!Router
  BY RouterOfPlace, DeployAssumption DEF DeployInv, DeployTypes
<1>3. s6' \in 0..Len(Routers) /\ (s6' = 0 <=> s7' = "idle") /\ s7' \in {"idle", "resolve"}
  BY <1>1, <1>2
<1>4. s9' \in [Deploying!Router -> {"none", "ok", "failed"}]
  BY <1>1, <1>2, Zenon DEF DeployInv, DeployTypes
<1>5. DeployTypes'
  BY <1>3, <1>4, Zenon DEF DeployInv, DeployTypes, Touched
<1>6. StartsInv'
  BY <1>1, StartsKept, Zenon
<1>7. (s6 # 0 => Reached(Routers[s6], s7))'
  BY <1>3, Zenon DEF Reached
<1>8. PrintedInv'
  BY PrintedKept, Zenon DEF DeployInv, Touched
<1>9. QED BY <1>5, <1>6, <1>7, <1>8, Zenon DEF DeployInv

\* A step of a deployment is followed by the next one.
LEMMA DeployOneKeeps ==
  ASSUME DeployInv, s6 # 0, Deploying!Effect, s7' = Deploying!After[s7],
         UNCHANGED <<s5, s6, s8, s9, s10, s12>>
  PROVE  DeployInv'
<1>1. PICK r, next : r = Routers[s6] /\ next = Deploying!After[s7]
  BY Zenon
<1>2. Touched(r) /\ s7 \in Steps /\ next \in Steps \cup {"wait"} /\ Reached(r, next)'
  BY <1>1, EffectTouches, Zenon
<1>3. s7' = next /\ s6' = s6 /\ Routers[s6'] = r
  BY <1>1, Zenon
<1>4. next # "idle"
  BY <1>2, Zenon DEF Steps
<1>5. DeployTypes'
  BY <1>2, <1>3, <1>4, Zenon DEF DeployInv, DeployTypes, Touched
<1>6. (s6 # 0 => Reached(Routers[s6], s7))'
  BY <1>2, <1>3, Zenon DEF Reached
<1>7. StartsInv'
  <2>1. s7 # "wait" /\ (s7' = "wait" <=> s7 = "start")
    BY <1>1, <1>2, <1>3 DEF Steps, Deploying!After
  <2>2. QED BY <1>1, <1>2, <1>3, <2>1, StartsKept, Zenon
<1>8. PrintedInv'
  BY <1>2, PrintedKept, Zenon DEF DeployInv, Touched
<1>9. QED BY <1>5, <1>6, <1>7, <1>8, Zenon DEF DeployInv

LEMMA RunKeeps ==
  ASSUME DeployInv, Deploying!Run
  PROVE  DeployInv'
<1>1. /\ s6 = 0 /\ s6' = 1 /\ s7' = "resolve" /\ s10' = s10 + 1 /\ s10 < MaxDeploys
      /\ UNCHANGED <<s1, s2, s3, s4, s5, s8, s9, s12>>
  BY Zenon DEF Deploying!Run, DeployInv, DeployTypes
<1>2. Len(Routers) \in Nat /\ 1 \in 0..Len(Routers) /\ s10 \in Nat /\ s12 \in Nat
  BY DeployAssumption DEF DeployInv, DeployTypes
<1>3. s10' \in 0..MaxDeploys
  BY <1>1, <1>2, DeployAssumption
<1>4. DeployTypes'
  BY <1>1, <1>2, <1>3 DEF DeployInv, DeployTypes
<1>5. ASSUME NEW j \in DOMAIN Routers
      PROVE  s3[Routers[j]].run + (IF Pending(j)' THEN 1 ELSE 0) <= s10 + 1 + s12 + 1
  <2>1. s3[Routers[j]].run + (IF Pending(j) THEN 1 ELSE 0) <= s10 + s12 + 1
    BY Zenon DEF DeployInv, StartsInv
  <2>2. ~Pending(j)
    BY <1>1, Zenon DEF Pending
  <2>3. s3[Routers[j]].run \in Nat
    BY RouterOfPlace, Zenon DEF DeployInv, DeployTypes, Process
  <2>4. QED BY <1>2, <2>1, <2>2, <2>3
<1>6. StartsInv'
  BY <1>1, <1>5, Zenon DEF StartsInv
<1>7. QED BY <1>1, <1>4, <1>6, Zenon DEF DeployInv, Reached, PrintedInv

LEMMA ResolveKeeps ==
  ASSUME DeployInv, Deploying!resolve_peer_blob
  PROVE  DeployInv'
<1>1. /\ s6 # 0 /\ Routers[s6] \in Deploying!Router /\ s7 = "resolve"
      /\ UNCHANGED <<s1, s2, s3, s4, s5, s10, s12>>
  BY RouterOfPlace, DeployAssumption DEF DeployInv, DeployTypes, Deploying!resolve_peer_blob
<1>2. CASE s7' = "network" /\ s6' = s6 /\ s9' = s9
           /\ s8' \in IF Listener[Routers[s6]] = Nil THEN {Nil}
                       ELSE {Deploying!Blob("given", 0),
                             Deploying!read_blob_for_id(Listener[Routers[s6]])}
  <2>1. Listener[Routers[s6]] \in Deploying!Router \cup {Nil}
    BY <1>1, DeployAssumption, Zenon
  <2>2. Deploying!Blob("given", 0) \in Commands /\ Nil \in Commands
    BY DEF Commands, Deploying!Blob
  <2>3. s8' \in Commands
    BY <1>2, <2>1, <2>2, BlobIsOwn, Zenon DEF DeployInv
  <2>4. DeployTypes'
    BY <1>1, <1>2, <2>3, Zenon DEF DeployInv, DeployTypes, Steps
  <2>5. StartsInv'
    <3>1. \A j : Pending(j)' <=> Pending(j)
      BY <1>1, <1>2, Zenon DEF Pending
    <3>2. QED BY <1>1, <3>1, Zenon DEF StartsInv, DeployInv
  <2>6. QED BY <1>1, <1>2, <2>4, <2>5, Zenon DEF DeployInv, Reached, PrintedInv
<1>3. CASE Deploying!Finish("failed") /\ s8' = s8
  <2>1. s3[Routers[s6]].run \in Nat
    BY <1>1, Zenon DEF DeployInv, DeployTypes, Process
  <2>2. Touched(Routers[s6])
    BY <1>1, <2>1 DEF Touched, Fresh, DeployInv, DeployTypes
  <2>3. QED BY <1>1, <1>3, <2>2, FinishKeeps, Zenon
<1>4. QED BY <1>2, <1>3, Zenon DEF Deploying!resolve_peer_blob, Deploying!me

\* A command whose failure ends the deployment, or is ignored.
LEMMA SshFailsKeeps ==
  ASSUME DeployInv, Deploying!SshFails
  PROVE  DeployInv'
<1>1. s6 # 0 /\ UNCHANGED <<s5, s8, s10, s12>>
  BY Zenon DEF DeployInv, DeployTypes, Deploying!SshFails
<1>2. PICK r : r = Routers[s6]
  BY Zenon
<1>3. CASE s7 \in Deploying!BestEffort
  <2>1. s7 = "envs_remove" /\ s7' = "envs_add" /\ UNCHANGED <<s6, s9>>
    BY <1>3 DEF Deploying!SshFails, Deploying!BestEffort, Deploying!After
  <2>2. CASE Deploying!Effect
    <3>1. s7' = Deploying!After[s7]
      BY <1>3, Zenon DEF Deploying!SshFails
    <3>2. QED BY <1>1, <2>1, <2>2, <3>1, DeployOneKeeps, Zenon
  <2>3. CASE UNCHANGED <<s1, s2, s3, s4>>
    <3>1. DeployTypes'
      BY <1>1, <2>1, <2>3, Zenon DEF DeployInv, DeployTypes, Steps
    <3>2. \A j : Pending(j)' <=> Pending(j)
      BY <2>1, Zenon DEF Pending
    <3>3. StartsInv'
      BY <1>1, <2>3, <3>2, Zenon DEF StartsInv, DeployInv
    <3>4. QED BY <1>1, <2>1, <2>3, <3>1, <3>3, Zenon DEF DeployInv, Reached, PrintedInv
  <2>4. QED BY <2>1, <2>2, <2>3, Zenon DEF Deploying!SshFails
<1>4. CASE s7 \notin Deploying!BestEffort
  <2>1. Deploying!Finish("failed")
    BY <1>4, Zenon DEF Deploying!SshFails
  <2>2. Touched(r) /\ (s7 = "wait" => s3' = s3)
    <3>1. CASE Deploying!Effect
      <4>1. Touched(r) /\ s7 \in Steps
        BY <1>1, <1>2, <3>1, EffectTouches, Zenon
      <4>2. QED BY <4>1, Zenon DEF Steps
    <3>2. CASE s7 = "remove" /\ Deploying!StopOnly
      BY <1>1, <1>2, <3>2, StopTouches, Zenon
    <3>3. CASE UNCHANGED <<s1, s2, s3, s4>>
      <4>1. r \in Deploying!Router
        BY <1>1, <1>2, RouterOfPlace, DeployAssumption DEF DeployInv, DeployTypes
      <4>2. s3[r].run \in Nat
        BY <4>1, Zenon DEF DeployInv, DeployTypes, Process
      <4>3. QED BY <3>3, <4>2 DEF Touched, Fresh, DeployInv, DeployTypes
    <3>4. QED BY <3>1, <3>2, <3>3, Zenon DEF Deploying!SshFails
  <2>3. QED BY <1>1, <1>2, <2>1, <2>2, FinishKeeps, Zenon
<1>5. QED BY <1>3, <1>4, Zenon

LEMMA LogsKeeps ==
  ASSUME DeployInv, NEW r \in Deploying!Router, Deploying!Logs(r)
  PROVE  DeployInv'
<1>1. s3[r] \in Process /\ s3[r].id # "none" /\ s3[r].run \in Nat
  BY Zenon DEF DeployInv, DeployTypes, Deploying!Logs, Process
<1>2. s3[r].run <= MaxDeploys + MaxReboots + 1
  <2>1. PICK j \in DOMAIN Routers : r = Routers[j]
    BY Zenon DEF Deploying!Router
  <2>2. s3[r].run + (IF Pending(j) THEN 1 ELSE 0) <= s10 + s12 + 1
    BY <2>1, Zenon DEF DeployInv, StartsInv
  <2>3. s10 \in 0..MaxDeploys /\ s12 \in 0..MaxReboots
    BY Zenon DEF DeployInv, DeployTypes
  <2>4. QED BY <1>1, <2>2, <2>3, DeployAssumption
<1>3. s3[r] \in LogEntry
  BY <1>1, <1>2, DeployAssumption DEF LogEntry, Process
<1>4. /\ s5' = [s5 EXCEPT ![r] = Append(@, s3[r])] /\ s4' = [s4 EXCEPT ![r] = TRUE]
      /\ UNCHANGED <<s1, s2, s3, s6, s7, s8, s9, s10, s12>>
  BY Zenon DEF Deploying!Logs
<1>5. s5' \in [Deploying!Router -> Seq(LogEntry)]
  BY <1>3, <1>4 DEF DeployInv, DeployTypes
<1>6. DeployTypes'
  BY <1>4, <1>5, Zenon DEF DeployInv, DeployTypes
<1>7. PrintedInv'
  <2>1. /\ s5'[r] # <<>> /\ s5'[r][Len(s5'[r])] = s3'[r]
    <3>1. s5[r] \in Seq(LogEntry) /\ s5'[r] = Append(s5[r], s3[r])
      BY <1>4, Zenon DEF DeployInv, DeployTypes
    <3>2. QED BY <1>3, <1>4, <3>1
  <2>2. \A q \in Deploying!Router : q # r => s5'[q] = s5[q] /\ s4'[q] = s4[q]
    BY <1>4, Zenon DEF DeployInv, DeployTypes
  <2>3. QED BY <1>4, <2>1, <2>2, Zenon DEF DeployInv, PrintedInv
<1>8. QED BY <1>4, <1>6, <1>7, Zenon DEF DeployInv, Reached, StartsInv, Pending

LEMMA RebootKeeps ==
  ASSUME DeployInv, NEW r \in Deploying!Router, Deploying!Reboot(r)
  PROVE  DeployInv'
<1> DEFINE turned == [i \in DOMAIN s1[r] |-> [s1[r][i] EXCEPT !.up = TRUE]]
<1>1. /\ s12 < MaxReboots /\ s12' = s12 + 1 /\ s1[r] # <<>>
      /\ s1' = [s1 EXCEPT ![r] = turned]
      /\ Deploying!Boots(r, TRUE) /\ s5' \in {s5, [s5 EXCEPT ![r] = <<>>]}
      /\ UNCHANGED <<s2, s6, s7, s8, s9, s10>>
  BY Zenon DEF Deploying!Reboot
<1>2. s1[r] \in Seq(Box) /\ turned \in Seq(Box) /\ Len(turned) = Len(s1[r])
  BY BoxesTurn, Zenon DEF DeployInv, DeployTypes
<1> HIDE DEF turned
<1>3. /\ s3' \in [Deploying!Router -> Process] /\ s4' \in [Deploying!Router -> BOOLEAN]
      /\ \A q \in Deploying!Router : q # r => s3'[q] = s3[q]
      /\ s3'[r].run = s3[r].run + 1 /\ (s2[r] => s3'[r].id = "own")
      /\ Fresh(r) /\ (s4'[r] => s3'[r].id = "none" \/ s3'[r] = s3[r])
  <2>1. /\ s3' \in [Deploying!Router -> Process] /\ s4' \in [Deploying!Router -> BOOLEAN]
        /\ \A q \in Deploying!Router : q # r => s3'[q] = s3[q]
        /\ s3'[r] = [id |-> IF s2[r] THEN "own" ELSE "other", run |-> s3[r].run + 1]
        /\ Fresh(r)
    BY <1>1, BootsProc, Zenon DEF DeployInv
  <2>2. s3'[r].run = s3[r].run + 1 /\ (s2[r] => s3'[r].id = "own")
    BY <2>1
  <2>3. QED BY <2>1, <2>2, Zenon DEF Fresh
<1>4. /\ s1' \in [Deploying!Router -> Seq(Box)] /\ Len(s1'[r]) = Len(s1[r])
      /\ \A q \in Deploying!Router : q # r => s1'[q] = s1[q]
  BY <1>1, <1>2, Zenon DEF DeployInv, DeployTypes
<1>5. s5' \in [Deploying!Router -> Seq(LogEntry)]
  <2>1. s5 \in [Deploying!Router -> Seq(LogEntry)] /\ <<>> \in Seq(LogEntry)
    BY DEF DeployInv, DeployTypes
  <2>2. QED BY <1>1, <2>1, Zenon
<1>6. s12' \in 0..MaxReboots /\ s12 \in Nat /\ s10 \in Nat
  BY <1>1, DeployAssumption DEF DeployInv, DeployTypes
<1>7. DeployTypes'
  BY <1>1, <1>3, <1>4, <1>5, <1>6, Zenon DEF DeployInv, DeployTypes
<1>8. (s6 # 0 => Reached(Routers[s6], s7))'
  <2> SUFFICES ASSUME s6 # 0
               PROVE  Reached(Routers[s6], s7)'
    BY <1>1, Zenon
  <2>1. PICK q : q = Routers[s6]
    BY Zenon
  <2>2. q \in Deploying!Router /\ Reached(q, s7) /\ Routers[s6'] = q /\ s1[q] \in Seq(Box)
    BY <1>1, <2>1, RouterOfPlace, DeployAssumption DEF DeployInv, DeployTypes
  <2>3. CASE q = r
    <3>1. s7' = s7 /\ s2' = s2 /\ Len(s1'[q]) = Len(s1[q]) /\ s1[q] # <<>>
          /\ (s2[q] => s3'[q].id = "own")
      BY <1>1, <1>3, <1>4, <2>3, Zenon
    <3>2. QED BY <2>2, <3>1, Zenon DEF Reached
  <2>4. CASE q # r
    <3>1. s7' = s7 /\ s2' = s2 /\ s1'[q] = s1[q] /\ s3'[q] = s3[q]
      BY <1>1, <1>3, <1>4, <2>2, <2>4, Zenon
    <3>2. QED BY <2>2, <3>1, Zenon DEF Reached
  <2>5. QED BY <2>3, <2>4, Zenon
<1>9. ASSUME NEW j \in DOMAIN Routers
      PROVE  s3'[Routers[j]].run + (IF Pending(j)' THEN 1 ELSE 0) <= s10 + 1 + s12 + 1
  <2>1. s3[Routers[j]].run + (IF Pending(j) THEN 1 ELSE 0) <= s10 + s12 + 1
    BY Zenon DEF DeployInv, StartsInv
  <2>2. Pending(j)' <=> Pending(j)
    BY <1>1, Zenon DEF Pending
  <2>3. s3[Routers[j]].run \in Nat /\ Routers[j] \in Deploying!Router
    BY RouterOfPlace, Zenon DEF DeployInv, DeployTypes, Process
  <2>4. s3'[Routers[j]].run \in {s3[Routers[j]].run, s3[Routers[j]].run + 1}
    BY <1>3, <2>3, Zenon
  <2>5. QED BY <1>6, <2>1, <2>2, <2>3, <2>4
<1>10. StartsInv'
  BY <1>1, <1>6, <1>9 DEF StartsInv
<1>11. PrintedInv'
  <2>1. s3[r].run \in Nat
    BY Zenon DEF DeployInv, DeployTypes, Process
  <2>2. s3'[r] # s3[r]
    BY <1>3, <2>1
  <2>3. \A q \in Deploying!Router : q # r => s5'[q] = s5[q]
    BY <1>1, Zenon DEF DeployInv, DeployTypes
  <2>4. QED BY <1>3, <2>2, <2>3, Zenon DEF DeployInv, PrintedInv, Fresh
<1>12. QED BY <1>7, <1>8, <1>10, <1>11, Zenon DEF DeployInv

LEMMA DeployStep ==
  ASSUME DeployInv, [Deploying!Next]_Deploying!vars
  PROVE  DeployInv'
<1>1. ASSUME Deploying!deploy_one PROVE DeployInv'
  <2>1. s6 # 0
    BY <1>1, Zenon DEF Deploying!deploy_one, Deploying!Effect, DeployInv, DeployTypes
  <2>2. QED BY <1>1, <2>1, DeployOneKeeps, Zenon DEF Deploying!deploy_one
<1>2. ASSUME Deploying!wait_for_state PROVE DeployInv'
  <2> DEFINE outcome == IF \E i \in DOMAIN s1[Deploying!me] : s1[Deploying!me][i].up
                          THEN "ok" ELSE "failed"
  <2>1. s6 # 0 /\ Routers[s6] \in Deploying!Router /\ UNCHANGED <<s1, s2, s3, s4, s5, s8, s10, s12>>
    BY <1>2, RouterOfPlace, DeployAssumption DEF Deploying!wait_for_state, DeployInv, DeployTypes
  <2>2. outcome \in {"ok", "failed"} /\ Deploying!Finish(outcome)
    BY <1>2, Zenon DEF Deploying!wait_for_state
  <2> HIDE DEF outcome
  <2>3. s3[Routers[s6]].run \in Nat
    BY <2>1, Zenon DEF DeployInv, DeployTypes, Process
  <2>4. Touched(Routers[s6])
    BY <2>1, <2>3 DEF Touched, Fresh, DeployInv, DeployTypes
  <2>5. QED BY <2>1, <2>2, <2>4, FinishKeeps, Zenon
<1>3. CASE UNCHANGED Deploying!vars
  BY <1>3, Zenon DEF Deploying!vars, DeployInv, DeployTypes, Reached, StartsInv, Pending,
       PrintedInv
<1>4. QED BY <1>1, <1>2, <1>3, RunKeeps, ResolveKeeps, SshFailsKeeps, LogsKeeps, RebootKeeps,
             Zenon DEF Deploying!Next

\* What the invariant says of a deployment that is done.
LEMMA DeployHolds ==
  ASSUME DeployInv
  PROVE  Deploying!TypeOK /\ Deploying!StableStep
<1>1. Deploying!TypeOK
  <2>1. DOMAIN Deploying!After = Steps
    BY Zenon DEF Deploying!After, Steps
  <2>2. \A r \in Deploying!Router : s3[r].id \in {"none", "own", "other"}
    BY Zenon DEF DeployInv, DeployTypes, Process
  <2>3. QED BY <2>1, <2>2, Zenon DEF DeployInv, DeployTypes, Deploying!TypeOK, LogEntry
<1>2. Deploying!StableStep
  BY Zenon DEF DeployInv, DeployTypes, Reached, Deploying!StableStep, Deploying!me
<1>3. QED BY <1>1, <1>2, Zenon

\* A connector is given what its listener's present process printed.
LEMMA PrintedHolds ==
  ASSUME DeployInv, [Deploying!Next]_Deploying!vars
  PROVE  Deploying!PrintedStep
<1> SUFFICES ASSUME s7 = "resolve", s7' = "network", Listener[Routers[s6]] # Nil,
                    s8'.id # "given"
             PROVE  LET p == Listener[Routers[s6]]
                    IN s8'.id = "own" /\ (s4[p] /\ s3[p].id = "own" => s8' = s3[p])
  BY Zenon DEF Deploying!PrintedStep, Deploying!me
<1>1. Deploying!resolve_peer_blob
  <2>1. ~Deploying!Effect
    BY Zenon DEF Deploying!Effect
  <2>2. ~Deploying!SshFails
    <3>1. SUFFICES ASSUME Deploying!SshFails PROVE FALSE
      OBVIOUS
    <3>2. s7 \notin Deploying!BestEffort
      BY DEF Deploying!BestEffort
    <3>3. Deploying!Finish("failed")
      BY <3>1, <3>2, Zenon DEF Deploying!SshFails
    <3>4. QED BY <3>3, Zenon DEF Deploying!Finish
  <2>3. s7' # s7
    OBVIOUS
  <2>4. QED BY <2>1, <2>2, <2>3, Zenon
            DEF Deploying!Next, Deploying!vars, Deploying!Run, Deploying!deploy_one,
                Deploying!wait_for_state, Deploying!Logs, Deploying!Reboot
<1>2. PICK p : p = Listener[Routers[s6]]
  BY Zenon
<1>3. p \in Deploying!Router
  <2>1. s6 # 0
    BY Zenon DEF DeployInv, DeployTypes
  <2>2. Routers[s6] \in Deploying!Router
    BY <2>1, RouterOfPlace, DeployAssumption DEF DeployInv, DeployTypes
  <2>3. QED BY <1>2, <2>2, DeployAssumption, Zenon
<1>4. s8' \in {Deploying!Blob("given", 0), Deploying!read_blob_for_id(p)}
  <2>1. ~Deploying!Finish("failed")
    BY Zenon DEF Deploying!Finish
  <2>2. QED BY <1>1, <1>2, <2>1, Zenon DEF Deploying!resolve_peer_blob, Deploying!me
<1>5. s8' = Deploying!read_blob_for_id(p)
  <2>1. Deploying!Blob("given", 0).id = "given"
    BY DEF Deploying!Blob
  <2>2. QED BY <1>4, <2>1, Zenon
<1>6. ASSUME s4[p], s3[p].id = "own"
      PROVE  s5[p] # <<>> /\ s5[p][Len(s5[p])] = s3[p]
  <2>1. s3[p].id # "none"
    BY <1>6, Zenon
  <2>2. QED BY <1>3, <1>6, <2>1, Zenon DEF DeployInv, PrintedInv
<1>7. QED BY <1>2, <1>3, <1>5, <1>6, BlobIsOwn, Zenon DEF DeployInv

-----------------------------------------------------------------------------
(* The parts.                                                              *)

MeshctlInv == /\ part = "apply" => ApplyInv
              /\ part = "deploy" => DeployInv

LEMMA MeshctlStart == MeshctlInit => MeshctlInv
BY ApplyInit, DeployInit, Zenon DEF MeshctlInit, MeshctlInv

LEMMA MeshctlMoves ==
  [MeshctlNext]_<<part, slots>> =>
    /\ part' = part
    /\ part = "apply" => [Applying!Next]_Applying!vars
    /\ part = "deploy" => [Deploying!Next]_Deploying!vars
BY Zenon DEF MeshctlNext, slots, Applying!vars, Applying!session, Deploying!vars

LEMMA MeshctlStep == MeshctlInv /\ [MeshctlNext]_<<part, slots>> => MeshctlInv'
BY MeshctlMoves, ApplyStep, DeployStep, Zenon DEF MeshctlInv

\* However many sessions apply a configuration, fail and start again, apply
\* makes no resource exist twice on the router and leaves alone those that do
\* (plan_changes, run_change).
THEOREM NothingTwice == MeshctlSpec => OneOfEach
<1>1. MeshctlInv /\ [MeshctlNext]_<<part, slots>> => (part = "apply" => Applying!OneOfEachStep)
  BY MeshctlMoves, OneOfEachHolds, Zenon DEF MeshctlInv
<1>2. QED BY <1>1, MeshctlStart, MeshctlStep, PTL DEF MeshctlSpec, OneOfEach

\* A run of apply that nothing disturbs leaves the router as its configuration
\* says, from any state it finds it in, but for the resources it finds several
\* of (observe_router, plan_changes, cmd_apply).
THEOREM PassConverges == MeshctlSpec => OnePassConverges
<1>1. MeshctlInv /\ [MeshctlNext]_<<part, slots>> => (part = "apply" => Applying!PassStep)
  BY MeshctlMoves, PassHolds, Zenon DEF MeshctlInv
<1>2. QED BY <1>1, MeshctlStart, MeshctlStep, PTL DEF MeshctlSpec, OnePassConverges

\* A deployment that is reported as done leaves one container, which runs under
\* the key the operator keeps for the router (deploy_one, remove_existing).
THEOREM DoneStable == MeshctlSpec => DoneIsStable
<1>1. MeshctlInv => (part = "deploy" => Deploying!StableStep)
  BY DeployHolds, Zenon DEF MeshctlInv
<1>2. QED BY <1>1, MeshctlStart, MeshctlStep, PTL DEF MeshctlSpec, DoneIsStable

\* A connector that is pointed at its listener is given the address that the
\* listener's present process printed, if it did, and else at least its kept
\* key (read_blob_for_id, resolve_peer_blob).
THEOREM GivenPrinted == MeshctlSpec => DialsPrinted
<1>1. MeshctlInv /\ [MeshctlNext]_<<part, slots>> => (part = "deploy" => Deploying!PrintedStep)
  BY MeshctlMoves, PrintedHolds, Zenon DEF MeshctlInv
<1>2. QED BY <1>1, MeshctlStart, MeshctlStep, PTL DEF MeshctlSpec, DialsPrinted

\* What is on the routers, and what sessions and deployments hold of it
\* (Plan, Change, deploy_one), keep their types.
THEOREM MeshctlTypes == MeshctlSpec => []MeshctlTypeOK
<1>1. MeshctlInv => MeshctlTypeOK
  BY ApplyHolds, DeployHolds, Zenon DEF MeshctlInv, MeshctlTypeOK
<1>2. QED BY <1>1, MeshctlStart, MeshctlStep, PTL DEF MeshctlSpec

-----------------------------------------------------------------------------
(* The control API and its command line.                                   *)

CONSTANTS Client, Patient, Asks, Gateway, None, MaxChanges, MaxRestarts
VARIABLES up, gateway, book, tomb, lost, heard, request, sent, open, status, result, changes,
          restarts

Api == INSTANCE ControlApi

\* What a connection may be answered, and what a client may report.
Refusal == {"400", "404", "405", "409", "413"}
Code == Refusal \cup {"200", "gone"}
Report == {"ok", "refused", "unreachable"}
Changing == {"publish", "unpublish"}

\* What the proof assumes of the constants: None is none of these.
ApiParams ==
  /\ None \notin Code \cup Report /\ None \notin Api!Entry
  /\ MaxChanges \in Nat /\ MaxRestarts \in Nat

\* The shapes of what is kept for each client.
ApiShape ==
  /\ request \in [Client -> Api!Request \cup {None}] /\ sent \in [Client -> 0..3]
  /\ open \in [Client -> BOOLEAN] /\ status \in [Client -> Code \cup {None}]
  /\ result \in [Client -> Report \cup {None}]

\* The node's own variables.
NodeShape ==
  /\ gateway \in Gateway \cup {None}
  /\ book \in Api!Entry \cup {None} /\ heard \in Api!Entry \cup {None}
  /\ tomb \in {None, "self", "peer"} /\ lost \in BOOLEAN
  /\ changes \in 0..MaxChanges /\ restarts \in 0..MaxRestarts

\* The inductive invariant of one connection, over the client's end, the answer
\* and the client's report: an answer nobody waits for is reported by nobody.
Honest(waits, code, rep) ==
  /\ rep = "ok" => code = "200"
  /\ rep = "refused" => code \in Refusal
  /\ code = "gone" /\ waits => rep # None

\* The same, of client c, and the inductive invariant.
Conn(c) == Honest(open[c], status[c], result[c])

ApiInv == ApiShape /\ NodeShape /\ \A c \in Client : Conn(c)

\* What handling a connection comes to: an answer without any effect, or one of
\* the two handlers, on a request that has come through whole.
LEMMA HandleOutcome ==
  ASSUME ApiShape, NEW c \in Client, Api!control_api_handle_conn(c)
  PROVE  \/ \E code \in Code : /\ Api!Answers(c, code)
                               /\ code = "200" => request[c] \notin Changing
                               /\ code = "gone" => ~open[c]
         \/ sent[c] = 3 /\ request[c] = "publish" /\ Api!control_api_handle_publish(c)
         \/ sent[c] = 3 /\ request[c] = "unpublish" /\ Api!control_api_handle_unpublish(c)
<1> DEFINE read == Api!control_api_read_request(c)
           Plain == \E code \in Code : /\ Api!Answers(c, code)
                                       /\ code = "200" => request[c] \notin Changing
                                       /\ code = "gone" => ~open[c]
<1>1. /\ read \in {"wait", "gone", "malformed", "long headers", "long body", "route", "empty"}
      /\ read = "route" => request[c] \notin {"no path", "long headers", "long body"}
           /\ Api!Whole(c)
      /\ read = "gone" => ~open[c]
  <2>1. sent[c] \in 0..3 /\ (sent[c] = 0 \/ sent[c] > 0)
    BY DEF ApiShape
  <2>2. CASE sent[c] = 0
    BY <2>2, Zenon DEF Api!control_api_read_request
  <2>3. CASE sent[c] > 0 /\ request[c] = "no path"
    BY <2>1, <2>3, Zenon DEF Api!control_api_read_request
  <2>4. CASE sent[c] > 0 /\ request[c] # "no path"
    <3>1. read = CASE request[c] = "long headers" /\ sent[c] >= 2 -> "long headers"
                   [] request[c] = "long body" /\ sent[c] >= 2 -> "long body"
                   [] request[c] \notin {"long headers", "long body"} /\ Api!Whole(c) -> "route"
                   [] Api!Truncated(c) -> "empty"
                   [] OTHER -> IF open[c] THEN "wait" ELSE "gone"
      <4>0. \A n \in 0..3 : n > 0 => n # 0
        OBVIOUS
      <4>1. sent[c] # 0
        BY <2>1, <2>4, <4>0, Zenon
      <4>2. QED BY <2>4, <4>1, Zenon DEF Api!control_api_read_request
    <3>2. CASE request[c] = "long headers" \/ request[c] = "long body"
      BY <2>1, <3>1, <3>2, Zenon DEF Api!Truncated
    <3>3. CASE request[c] \notin {"long headers", "long body"}
      BY <2>1, <2>4, <3>1, <3>3, Zenon DEF Api!Truncated, Api!Whole
    <3>4. QED BY <3>2, <3>3, Zenon
  <2>5. QED BY <2>1, <2>2, <2>3, <2>4, Zenon
<1>c. ASSUME NEW code \in {"200", "400", "404", "405", "413", "gone"}, Api!Answers(c, code),
             code = "200" => request[c] \notin Changing, code = "gone" => ~open[c]
      PROVE  Plain
  <2>1. code \in Code
    BY DEF Code, Refusal
  <2>2. QED BY <1>c, <2>1, Zenon
<1>2. CASE read = "route"
  <2>1. Api!control_api_route(c)
    BY <1>2, Zenon DEF Api!control_api_handle_conn
  <2>2. CASE request[c] \in Changing
    <3>1. sent[c] = 3
      BY <1>1, <1>2, <2>2, Zenon DEF Api!Whole, Api!HasBody, Api!Posts, Changing
    <3>2. CASE request[c] = "publish"
      BY <2>1, <3>1, <3>2, Zenon DEF Api!control_api_route
    <3>3. CASE request[c] = "unpublish"
      BY <2>1, <3>1, <3>3, Zenon DEF Api!control_api_route
    <3>4. QED BY <2>2, <3>2, <3>3, Zenon DEF Changing
  <2>3. CASE request[c] \notin Changing
    <3>1. \/ Api!Answers(c, "200") \/ Api!Answers(c, "400")
          \/ Api!Answers(c, "405") \/ Api!Answers(c, "404")
      BY <2>1, <2>3, Zenon DEF Api!control_api_route, Changing
    <3>2. Plain
      BY <1>c, <2>3, <3>1, Zenon
    <3>3. QED BY <3>2, Zenon
  <2>4. QED BY <2>2, <2>3, Zenon
<1>3. CASE read = "empty"
  <2>1. CASE request[c] \in Changing
    <3>1. Api!Answers(c, "400")
      BY <1>3, <2>1, Zenon DEF Api!control_api_handle_conn, Api!Posts, Changing
    <3>2. Plain
      BY <1>c, <3>1, Zenon
    <3>3. QED BY <3>2, Zenon
  <2>2. CASE request[c] \in Api!Posts \ Changing
    <3>1. Api!Answers(c, "400")
      BY <1>3, <2>2, Zenon DEF Api!control_api_handle_conn
    <3>2. Plain
      BY <1>c, <3>1, Zenon
    <3>3. QED BY <3>2, Zenon
  <2>4. CASE request[c] \notin Api!Posts
    <3>0. Api!control_api_route(c)
      BY <1>3, <2>4, Zenon DEF Api!control_api_handle_conn
    <3>1. Api!Answers(c, "200") \/ Api!Answers(c, "405") \/ Api!Answers(c, "404")
      BY <2>4, <3>0, Zenon DEF Api!control_api_route, Api!Posts
    <3>2. Plain
      BY <1>c, <2>4, <3>1, Zenon DEF Changing, Api!Posts
    <3>3. QED BY <3>2, Zenon
  <2>3. QED BY <2>1, <2>2, <2>4, Zenon
<1>4. CASE read \notin {"route", "empty"}
  <2>1. \/ Api!Answers(c, "gone") /\ ~open[c]
        \/ Api!Answers(c, "413") \/ Api!Answers(c, "400")
    BY <1>1, <1>4, Zenon DEF Api!control_api_handle_conn
  <2>2. Plain
    BY <1>c, <2>1, Zenon
  <2>3. QED BY <2>2, Zenon
<1>5. QED BY <1>2, <1>3, <1>4, Zenon

\* A step that is about one client leaves the others as they are.
LEMMA OtherConns ==
  ASSUME \A d \in Client : Conn(d), NEW c \in Client,
         \A d \in Client \ {c} :
           open'[d] = open[d] /\ status'[d] = status[d] /\ result'[d] = result[d],
         Honest(open'[c], status'[c], result'[c])
  PROVE  \A d \in Client : Conn(d)'
BY Zenon DEF Conn

\* A step that answers nobody and leaves the directory alone tells no lie.
LEMMA QuietStep ==
  UNCHANGED <<status, book, tomb, lost>> => Api!AnswerTrue /\ Api!NameStands
<1> SUFFICES ASSUME UNCHANGED <<status, book, tomb, lost>>
             PROVE  Api!AnswerTrue /\ Api!NameStands
  BY Zenon
<1>1. Api!AnswerTrue
  BY Zenon DEF Api!AnswerTrue
<1>2. Api!Mine' <=> Api!Mine
  BY Zenon DEF Api!Mine
<1>3. Api!NameStands
  BY <1>2, Zenon DEF Api!NameStands
<1>4. QED BY <1>1, <1>3, Zenon

\* The steps of a client.
LEMMA ClientStep ==
  ASSUME ApiParams, ApiInv, NEW c \in Client,
         Api!Send(c) \/ Api!HangUp(c) \/ Api!run_cli(c) \/ Api!NobodyListens(c)
  PROVE  ApiInv' /\ UNCHANGED <<status, book, tomb, lost>>
<1>0. ApiShape /\ NodeShape /\ Conn(c) /\ \A d \in Client : Conn(d)
  BY Zenon DEF ApiInv
<1>s. sent[c] \in 0..3 /\ status[c] \in Code \cup {None}
  BY <1>0, Zenon DEF ApiShape
<1>1. UNCHANGED Api!node => NodeShape' /\ UNCHANGED <<book, tomb, lost>>
  BY <1>0, Zenon DEF NodeShape, Api!node, Api!directory
<1>2. CASE Api!Send(c)
  <2>1. /\ sent' = [sent EXCEPT ![c] = sent[c] + 1] /\ sent[c] < 3
        /\ UNCHANGED <<request, open, Api!node, status, result>>
    BY <1>2, Zenon DEF Api!Send
  <2>2. sent[c] + 1 \in 0..3
    BY <1>s, <2>1
  <2>3. ApiShape' /\ \A d \in Client : Conn(d)'
    <3>1. ApiShape'
      BY <1>0, <2>1, <2>2, Zenon DEF ApiShape
    <3>2. QED BY <1>0, <2>1, <3>1, Zenon DEF Conn
  <2>4. QED BY <1>1, <2>1, <2>3, Zenon DEF ApiInv
<1>3. CASE Api!HangUp(c)
  <2>1. /\ open' = [open EXCEPT ![c] = FALSE]
        /\ UNCHANGED <<request, sent, Api!node, status, result>>
    BY <1>3, Zenon DEF Api!HangUp
  <2>2. Honest(FALSE, status[c], result[c])
    BY <1>0, Zenon DEF Conn, Honest
  <2>3. ApiShape' /\ \A d \in Client : Conn(d)'
    <3>1. ApiShape'
      BY <1>0, <2>1, Zenon DEF ApiShape
    <3>2. open'[c] = FALSE /\ \A d \in Client \ {c} : open'[d] = open[d]
      BY <1>0, <2>1, Zenon DEF ApiShape
    <3>3. QED BY <1>0, <2>1, <2>2, <3>1, <3>2, OtherConns, Zenon
  <2>4. QED BY <1>1, <2>1, <2>3, Zenon DEF ApiInv
<1>4. CASE Api!run_cli(c) \/ Api!NobodyListens(c)
  <2>1. PICK r \in Report :
          /\ result' = [result EXCEPT ![c] = r]
          /\ UNCHANGED <<Api!client, Api!node, status>>
          /\ r = "ok" => status[c] = "200"
          /\ r = "refused" => status[c] \notin {"200", None} /\ open[c] /\ result[c] = None
    BY <1>4, Zenon DEF Api!run_cli, Api!NobodyListens, Report
  <2>2. Honest(open[c], status[c], r)
    BY <1>0, <1>s, <2>1, Zenon DEF Conn, Honest, Code, ApiParams
  <2>3. ApiShape' /\ \A d \in Client : Conn(d)'
    <3>1. ApiShape'
      BY <1>0, <2>1, Zenon DEF ApiShape, Api!client
    <3>2. /\ open' = open /\ status' = status /\ result'[c] = r
          /\ \A d \in Client \ {c} : result'[d] = result[d]
      BY <1>0, <2>1, Zenon DEF ApiShape, Api!client
    <3>3. QED BY <1>0, <2>2, <3>1, <3>2, OtherConns, Zenon
  <2>4. QED BY <1>1, <2>1, <2>3, Zenon DEF ApiInv
<1>5. QED BY <1>2, <1>3, <1>4, Zenon

\* The directory still has its shape, and a lost name is not taken back.
Sound ==
  /\ book' \in Api!Entry \cup {None} /\ heard' \in Api!Entry \cup {None}
  /\ tomb' \in {None, "self", "peer"} /\ lost' \in BOOLEAN
  /\ lost => lost' /\ (Api!Mine' => Api!Mine)

\* A publish is answered with a 200 only if the name is the node's then, and
\* otherwise leaves the name to whom it was (control_api_handle_publish).
LEMMA PublishDoes ==
  ASSUME NodeShape, ApiParams, NEW c \in Client, Api!control_api_handle_publish(c)
  PROVE  /\ Sound
         /\ \/ status' = [status EXCEPT ![c] = "200"] /\ Api!Mine'
            \/ status' = [status EXCEPT ![c] = "409"] /\ UNCHANGED <<book, tomb>>
<1>0. /\ book \in Api!Entry \cup {None} /\ heard \in Api!Entry \cup {None}
      /\ tomb \in {None, "self", "peer"} /\ lost \in BOOLEAN
  BY Zenon DEF NodeShape
<1>1. PICK e \in Api!Entry :
        /\ e.owner = "self" /\ e # None
        /\ e = [owner |-> "self", ip |-> Api!current_gateway]
  <2>1. Api!current_gateway \in Gateway \cup {"192.168.1.1"}
    BY Zenon DEF Api!current_gateway, NodeShape
  <2>2. [owner |-> "self", ip |-> Api!current_gateway] \in Api!Entry
    BY <2>1, Zenon DEF Api!Entry
  <2>3. QED BY <2>2, Zenon DEF ApiParams
<1>2. CASE lost /\ Api!Answers(c, "409")
  BY <1>0, <1>2, Zenon DEF Api!Answers, Api!directory, Api!Mine, Sound
<1>3. CASE /\ ~lost /\ heard' = e
           /\ Api!Taken(c) \/ Api!Kept(c) \/ Api!Beaten(c) \/ Api!Rejected(c)
  <2>1. CASE Api!Taken(c)
    <3>1. /\ book' = e /\ tomb' = tomb /\ lost' = lost
          /\ status' = [status EXCEPT ![c] = "200"]
      BY <1>1, <2>1, Zenon DEF Api!Taken
    <3>2. QED BY <1>0, <1>1, <1>3, <3>1, Zenon DEF Api!Mine, Sound
  <2>2. CASE Api!Kept(c)
    BY <1>0, <1>3, <2>2, Zenon DEF Api!Kept, Api!directory, Api!Mine, Sound
  <2>3. CASE Api!Beaten(c)
    BY <1>0, <1>3, <2>3, Zenon DEF Api!Beaten, Sound
  <2>4. CASE Api!Rejected(c)
    BY <1>0, <1>3, <2>4, Zenon DEF Api!Rejected, Api!directory, Sound
  <2>5. QED BY <1>3, <2>1, <2>2, <2>3, <2>4, Zenon
<1>4. QED BY <1>1, <1>2, <1>3, Zenon DEF Api!control_api_handle_publish

\* An unpublish is answered with a 200 only if the name is gone then and its
\* tombstone the node's (control_api_handle_unpublish).
LEMMA UnpublishDoes ==
  ASSUME NodeShape, NEW c \in Client, Api!control_api_handle_unpublish(c)
  PROVE  /\ Sound
         /\ \/ status' = [status EXCEPT ![c] = "200"] /\ book' = None /\ tomb' = "self"
            \/ status' = [status EXCEPT ![c] = "409"] /\ UNCHANGED <<book, tomb>>
<1>1. /\ heard' = None /\ lost' = lost
      /\ \/ status' = [status EXCEPT ![c] = "200"] /\ book' = None /\ tomb' = "self"
         \/ status' = [status EXCEPT ![c] = "409"] /\ UNCHANGED <<book, tomb>>
  BY Zenon DEF Api!control_api_handle_unpublish, Api!directory
<1>2. QED BY <1>1, Zenon DEF NodeShape, Api!Mine, Sound

\* A connection that is handled keeps the invariant, and its answer is true.
LEMMA HandleStep ==
  ASSUME ApiParams, ApiInv, NEW c \in Client, Api!control_api_handle_conn(c)
  PROVE  ApiInv' /\ Api!AnswerTrue /\ Api!NameStands
<1>0. ApiShape /\ NodeShape /\ Conn(c) /\ \A d \in Client : Conn(d)
  BY Zenon DEF ApiInv
<1>1. /\ status[c] = None /\ result[c] = None
      /\ UNCHANGED <<Api!client, up, gateway, changes, restarts, result>>
  BY Zenon DEF Api!control_api_handle_conn
<1>2. PICK code \in Code :
        /\ status' = [status EXCEPT ![c] = code]
        /\ code = "gone" => ~open[c]
        /\ Sound
        /\ \/ code = "200" /\ request[c] = "publish" /\ sent[c] = 3 /\ Api!Mine'
           \/ /\ code = "200" /\ request[c] = "unpublish" /\ sent[c] = 3
              /\ book' = None /\ tomb' = "self"
           \/ UNCHANGED <<book, tomb>> /\ (code = "200" => request[c] \notin Changing)
  <2>c. /\ "200" \in Code /\ "409" \in Code /\ "200" # "gone"
        /\ "409" # "gone" /\ "409" # "200"
    BY DEF Code, Refusal
  <2>1. CASE \E code \in Code : /\ Api!Answers(c, code)
                                /\ code = "200" => request[c] \notin Changing
                                /\ code = "gone" => ~open[c]
    <3>1. PICK code \in Code : /\ Api!Answers(c, code)
                               /\ code = "200" => request[c] \notin Changing
                               /\ code = "gone" => ~open[c]
      BY <2>1, Zenon
    <3>2. status' = [status EXCEPT ![c] = code] /\ UNCHANGED <<book, tomb, lost, heard>>
      BY <3>1, Zenon DEF Api!Answers, Api!directory
    <3>3. Sound
      BY <1>0, <3>2, Zenon DEF NodeShape, Sound, Api!Mine
    <3>4. QED BY <3>1, <3>2, <3>3, Zenon
  <2>2. CASE sent[c] = 3 /\ request[c] = "publish" /\ Api!control_api_handle_publish(c)
    <3>1. /\ Sound
          /\ \/ status' = [status EXCEPT ![c] = "200"] /\ Api!Mine'
             \/ status' = [status EXCEPT ![c] = "409"] /\ UNCHANGED <<book, tomb>>
      BY <1>0, <2>2, PublishDoes, Zenon
    <3>2. QED BY <2>2, <2>c, <3>1, Zenon
  <2>3. CASE sent[c] = 3 /\ request[c] = "unpublish" /\ Api!control_api_handle_unpublish(c)
    <3>1. /\ Sound
          /\ \/ status' = [status EXCEPT ![c] = "200"] /\ book' = None /\ tomb' = "self"
             \/ status' = [status EXCEPT ![c] = "409"] /\ UNCHANGED <<book, tomb>>
      BY <1>0, <2>3, UnpublishDoes, Zenon
    <3>2. QED BY <2>3, <2>c, <3>1, Zenon
  <2>4. QED BY <1>0, <2>1, <2>2, <2>3, HandleOutcome, Zenon
<1>3. /\ status'[c] = code /\ status[c] = None /\ code # None
      /\ \A d \in Client : d # c => status'[d] = status[d]
  BY <1>0, <1>1, <1>2, Zenon DEF ApiShape, ApiParams
<1>4. Api!AnswerTrue
  BY <1>2, <1>3, Zenon DEF Api!AnswerTrue, Changing
<1>5. Api!NameStands
  <2>1. CASE request[c] = "unpublish" /\ code = "200"
    BY <1>2, <1>3, <2>1, Zenon DEF Api!NameStands, Sound
  <2>2. CASE ~(request[c] = "unpublish" /\ code = "200")
    <3>1. Api!Mine => Api!Mine'
      BY <1>2, <2>2, Zenon DEF Api!Mine
    <3>2. QED BY <1>2, <3>1, Zenon DEF Api!NameStands, Sound
  <2>3. QED BY <2>1, <2>2, Zenon
<1>6. ApiInv'
  <2>1. Honest(open[c], code, result[c])
    BY <1>1, <1>2, Zenon DEF Honest, ApiParams, Code, Report
  <2>2. ApiShape'
    BY <1>0, <1>1, <1>2, Zenon DEF ApiShape, Api!client
  <2>3. \A d \in Client : Conn(d)'
    <3>1. open' = open /\ result' = result
      BY <1>1, Zenon DEF Api!client
    <3>2. QED BY <1>0, <1>3, <2>1, <3>1, OtherConns, Zenon
  <2>4. NodeShape'
    BY <1>0, <1>1, <1>2, Zenon DEF NodeShape, Sound
  <2>5. QED BY <2>2, <2>3, <2>4, Zenon DEF ApiInv
<1>7. QED BY <1>4, <1>5, <1>6, Zenon

\* What else happens keeps the invariant, and takes a name only from an owner
\* that loses it.
LEMMA OutsideStep ==
  ASSUME ApiParams, ApiInv, changes' = changes \/ Api!Happens,
         UNCHANGED <<Api!client, restarts, status, result>>,
         gateway' \in Gateway \cup {None}, Sound,
         Api!Mine => Api!Mine' \/ (Api!Theirs' /\ lost')
  PROVE  ApiInv' /\ Api!AnswerTrue /\ Api!NameStands
<1>0. ApiShape /\ NodeShape /\ \A d \in Client : Conn(d)
  BY Zenon DEF ApiInv
<1>1. changes' \in 0..MaxChanges
  <2>1. changes \in 0..MaxChanges /\ MaxChanges \in Nat
    BY <1>0, Zenon DEF NodeShape, ApiParams
  <2>2. QED BY <2>1 DEF Api!Happens
<1>2. ApiInv'
  BY <1>0, <1>1, Zenon DEF ApiInv, ApiShape, NodeShape, Sound, Api!client, Conn
<1>3. Api!AnswerTrue
  BY Zenon DEF Api!AnswerTrue
<1>4. Api!NameStands
  BY Zenon DEF Api!NameStands, Sound
<1>5. QED BY <1>2, <1>3, <1>4, Zenon

\* Every step keeps the invariant, and no answer is a lie.
LEMMA ApiStep ==
  ASSUME ApiParams, ApiInv, [Api!Next]_Api!vars
  PROVE  ApiInv' /\ (UNCHANGED Api!vars \/ (Api!AnswerTrue /\ Api!NameStands))
<1>0. ApiShape /\ NodeShape /\ \A d \in Client : Conn(d)
  BY Zenon DEF ApiInv
<1>s. UNCHANGED <<book, tomb, lost>> /\ heard' \in {heard, book, None}
        => Sound /\ (Api!Mine => Api!Mine')
  <2> SUFFICES ASSUME UNCHANGED <<book, tomb, lost>>, heard' \in {heard, book, None}
               PROVE  Sound /\ (Api!Mine => Api!Mine')
    BY Zenon
  <2>1. Api!Mine' <=> Api!Mine
    BY Zenon DEF Api!Mine
  <2>2. heard' \in Api!Entry \cup {None}
    BY <1>0, Zenon DEF NodeShape
  <2>3. QED BY <1>0, <2>1, <2>2, Zenon DEF NodeShape, Sound
<1>1. ASSUME NEW g \in Gateway \cup {None}, Api!Reclaim(g)
      PROVE  ApiInv' /\ Api!AnswerTrue /\ Api!NameStands
  <2>1. /\ Api!Happens /\ gateway' = g /\ UNCHANGED <<book, tomb, lost, heard>>
        /\ UNCHANGED <<Api!client, restarts, status, result>>
    BY <1>1, Zenon DEF Api!Reclaim, Api!directory
  <2>2. QED BY <1>s, <1>1, <2>1, OutsideStep, Zenon
<1>2. CASE Api!announce_service_book_v2
  <2>1. /\ changes' = changes /\ gateway' = gateway /\ UNCHANGED <<book, tomb, lost>>
        /\ heard' \in {heard, book, None}
        /\ UNCHANGED <<Api!client, restarts, status, result>>
    BY <1>2, Zenon DEF Api!announce_service_book_v2, Api!directory
  <2>2. gateway' \in Gateway \cup {None}
    BY <1>0, <2>1, Zenon DEF NodeShape
  <2>3. QED BY <1>s, <2>1, <2>2, OutsideStep, Zenon
<1>3. CASE Api!PeerPublishes \/ Api!PeerUnpublishes \/ Api!sweep_stale_lanes
  <2>1. /\ Api!Happens /\ gateway' = gateway /\ heard' = heard
        /\ UNCHANGED <<Api!client, restarts, status, result>>
    BY <1>3, Zenon DEF Api!PeerPublishes, Api!PeerUnpublishes, Api!sweep_stale_lanes,
                       Api!Untouched
  <2>2. Sound /\ (Api!Mine => Api!Mine' \/ (Api!Theirs' /\ lost'))
    <3>1. CASE Api!PeerPublishes
      <4>1. PICK e \in Api!Entry : e.owner = "peer" /\ book' = e /\ e # None
        <5>1. [owner |-> "peer", ip |-> "192.168.1.1"] \in Api!Entry
          BY Zenon DEF Api!Entry
        <5>2. QED BY <3>1, <5>1, Zenon DEF Api!PeerPublishes, ApiParams
      <4>2. lost' = (lost \/ Api!Mine) /\ tomb' = tomb
        BY <3>1, Zenon DEF Api!PeerPublishes
      <4>3. ~Api!Mine' /\ Api!Theirs'
        BY <4>1, Zenon DEF Api!Mine, Api!Theirs
      <4>4. /\ tomb \in {None, "self", "peer"} /\ lost \in BOOLEAN
            /\ heard \in Api!Entry \cup {None} /\ Api!Mine \in BOOLEAN
        BY <1>0, Zenon DEF NodeShape, Api!Mine
      <4>5. QED BY <2>1, <4>1, <4>2, <4>3, <4>4, Zenon DEF Sound
    <3>2. CASE Api!PeerUnpublishes \/ Api!sweep_stale_lanes
      <4>1. /\ lost' = lost /\ tomb' \in {tomb, "peer", None}
            /\ (book' = book \/ (book' = None /\ ~Api!Mine))
        BY <3>2, Zenon DEF Api!PeerUnpublishes, Api!sweep_stale_lanes, Api!Mine, Api!Theirs
      <4>2. QED BY <1>0, <2>1, <4>1, Zenon DEF NodeShape, Sound, Api!Mine
    <3>3. QED BY <1>3, <3>1, <3>2, Zenon
  <2>3. gateway' \in Gateway \cup {None}
    BY <1>0, <2>1, Zenon DEF NodeShape
  <2>4. QED BY <2>1, <2>2, <2>3, OutsideStep, Zenon
<1>4. CASE Api!Restart
  <2>1. restarts' \in 0..MaxRestarts
    BY <1>0, <1>4 DEF Api!Restart, NodeShape, ApiParams
  <2>2. /\ UNCHANGED <<request, sent, open, book, tomb, lost, heard, changes>>
        /\ gateway' = None
        /\ result' = [c \in Client |-> IF up /\ open[c] /\ sent[c] > 0 /\ result[c] = None
                                         THEN "unreachable" ELSE result[c]]
        /\ status' = [c \in Client |-> IF up /\ sent[c] > 0 /\ status[c] = None
                                         THEN "gone" ELSE status[c]]
    BY <1>4, Zenon DEF Api!Restart, Api!client, Api!directory
  <2>3. NodeShape'
    BY <1>0, <2>1, <2>2, Zenon DEF NodeShape
  <2>4. ApiShape'
    BY <1>0, <2>2, Zenon DEF ApiShape, Code, Report
  <2>5. ASSUME NEW c \in Client
        PROVE  Conn(c)' /\ (status'[c] = status[c] \/ status'[c] = "gone")
    <3>1. /\ status'[c] = IF up /\ sent[c] > 0 /\ status[c] = None THEN "gone" ELSE status[c]
          /\ result'[c] = IF up /\ open[c] /\ sent[c] > 0 /\ result[c] = None
                            THEN "unreachable" ELSE result[c]
      BY <2>2, Zenon
    <3>2. "unreachable" # None
      BY Zenon DEF ApiParams, Report
    <3>3. Honest(open[c], status'[c], result'[c])
      BY <1>0, <3>1, <3>2, Zenon DEF Conn, Honest, Refusal, ApiParams, Code
    <3>4. QED BY <2>2, <3>1, <3>3, Zenon DEF Conn
  <2>6. Api!AnswerTrue /\ Api!NameStands
    BY <2>2, <2>5, Zenon DEF Api!AnswerTrue, Api!NameStands, Api!Mine
  <2>7. QED BY <2>3, <2>4, <2>5, <2>6, Zenon DEF ApiInv
<1>5. CASE UNCHANGED Api!vars
  BY <1>0, <1>5, Zenon DEF Api!vars, Api!client, Api!node, Api!directory, ApiInv, ApiShape,
       NodeShape, Conn
<1>6. ASSUME NEW c \in Client,
             \/ Api!Send(c) \/ Api!HangUp(c) \/ Api!run_cli(c) \/ Api!NobodyListens(c)
             \/ Api!control_api_handle_conn(c)
      PROVE  ApiInv' /\ Api!AnswerTrue /\ Api!NameStands
  BY <1>6, ClientStep, HandleStep, QuietStep, Zenon
<1>7. QED BY <1>1, <1>2, <1>3, <1>4, <1>5, <1>6, Zenon DEF Api!Next

\* The command line tells the truth: it reports a success only if the daemon
\* made the directory as asked, a refusal only if it left book and tombstones
\* alone, and a name once confirmed leaves the node only with its own unpublish
\* or to an earlier claim, which is final; however clients hang up, peers claim
\* the name and the daemon restarts (control_api_handle_conn,
\* control_api_client_request).
THEOREM CliTellsTruth ==
  ASSUME ApiParams
  PROVE  Api!Spec => []Api!TypeOK /\ Api!CliHonest
<1>1. Api!Init => ApiInv
  <2> SUFFICES ASSUME Api!Init PROVE ApiInv
    BY Zenon
  <2>1. changes \in 0..MaxChanges /\ restarts \in 0..MaxRestarts
    BY DEF Api!Init, ApiParams
  <2>2. sent = [c \in Client |-> 0] /\ 0 \in 0..3
    BY DEF Api!Init
  <2>3. ApiShape /\ NodeShape
    BY <2>1, <2>2, Zenon DEF Api!Init, ApiShape, NodeShape
  <2>4. \A c \in Client : Conn(c)
    BY Zenon DEF Api!Init, Conn, Honest, ApiParams, Code, Report
  <2>5. QED BY <2>3, <2>4, Zenon DEF ApiInv
<1>2. ApiInv /\ [Api!Next]_Api!vars
        => ApiInv' /\ [Api!AnswerTrue /\ Api!NameStands]_Api!vars
  BY ApiStep, Zenon
<1>3. ApiInv => Api!TypeOK
  BY Zenon DEF ApiInv, ApiShape, NodeShape, Api!TypeOK, Report
<1>4. ApiInv => Api!ResultTrue
  BY Zenon DEF ApiInv, Api!ResultTrue, Conn, Honest, Refusal
<1>5. QED BY <1>1, <1>2, <1>3, <1>4, PTL DEF Api!Spec, Api!CliHonest

=============================================================================
