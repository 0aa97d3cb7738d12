------------------------------ MODULE PoolLemmas ------------------------------
(***************************************************************************)
(* Facts about queues as sequences: what push_front and pop of a           *)
(* customQueue do to the elements.  Then a pool of buffers whose ids       *)
(* travel through queues and thread variables, as in XDBCServer and        *)
(* XClient: what a push or a pop does to the claim that every buffer is in *)
(* one place.  q gives the queues by name, h the id each thread variable   *)
(* holds; anything outside B (a sentinel, no buffer) is not counted.       *)
(***************************************************************************)
EXTENDS Integers, Sequences, TLAPS, FunctionTheorems, FiniteSetTheorems

\* Every element of a queue without its head was an element of the queue.
LEMMA TailElements ==
  ASSUME NEW S, NEW q \in Seq(S), q # <<>>
  PROVE  /\ Tail(q) \in Seq(S)
         /\ Len(Tail(q)) = Len(q) - 1
         /\ Len(q) \in Nat /\ Len(q) > 0
         /\ Head(q) = q[1] /\ Head(q) \in S
         /\ \A i \in 1..Len(Tail(q)) : Tail(q)[i] = q[i+1] /\ i+1 \in 1..Len(q)
OBVIOUS

\* The elements of a queue after a push.
LEMMA AppendElements ==
  ASSUME NEW S, NEW q \in Seq(S), NEW x \in S
  PROVE  /\ Append(q, x) \in Seq(S)
         /\ Len(Append(q, x)) = Len(q) + 1
         /\ Len(q) \in Nat
         /\ \A i \in 1..Len(Append(q, x)) :
               Append(q, x)[i] = IF i = Len(q) + 1 THEN x ELSE q[i]
OBVIOUS

-----------------------------------------------------------------------------
\* No buffer is in two places: two positions of queues, two variables, or one of
\* each.
OnePlace(B, q, h) ==
  /\ \A m, n \in DOMAIN q : \A i \in 1..Len(q[m]), j \in 1..Len(q[n]) :
       q[m][i] \in B /\ q[m][i] = q[n][j] => m = n /\ i = j
  /\ \A r, s \in DOMAIN h : h[r] \in B /\ h[r] = h[s] => r = s
  /\ \A n \in DOMAIN q : \A i \in 1..Len(q[n]) : \A s \in DOMAIN h :
       q[n][i] \in B => q[n][i] # h[s]

\* Every buffer is in some place.
SomePlace(B, q, h) ==
  \A b \in B : \/ \E n \in DOMAIN q : \E i \in 1..Len(q[n]) : q[n][i] = b
               \/ \E s \in DOMAIN h : h[s] = b

\* An element has been popped from queue n, and e pushed into it; the variable s
\* has been given the value x.
Popped(q, n, q2) ==
  n \in DOMAIN q /\ q[n] \in Seq(Int) /\ q[n] # <<>> /\ q2 = [q EXCEPT ![n] = Tail(@)]

Pushed(q, n, e, q2) ==
  n \in DOMAIN q /\ q[n] \in Seq(Int) /\ e \in Int /\ q2 = [q EXCEPT ![n] = Append(@, e)]

Assigned(h, s, x, h2) ==
  /\ s \in DOMAIN h /\ DOMAIN h2 = DOMAIN h
  /\ \A r \in DOMAIN h : h2[r] = IF r = s THEN x ELSE h[r]

\* Variable s has got what r held, and r the value x.
Moved(h, r, s, x, h2) ==
  /\ r \in DOMAIN h /\ s \in DOMAIN h /\ r # s /\ DOMAIN h2 = DOMAIN h
  /\ \A t \in DOMAIN h : h2[t] = IF t = s THEN h[r] ELSE IF t = r THEN x ELSE h[t]

-----------------------------------------------------------------------------
\* An id popped into a variable does not get into a second place; popping a
\* sentinel may leave anything that is no buffer in the variable.
LEMMA PopKeepsOne ==
  ASSUME NEW B, NEW q, NEW h, NEW n, NEW s, NEW x, NEW q2, NEW h2,
         Popped(q, n, q2), Assigned(h, s, x, h2), x = Head(q[n]) \/ x \notin B,
         OnePlace(B, q, h)
  PROVE  OnePlace(B, q2, h2)
<1> USE DEF Popped, Assigned
<1>1. /\ Len(Tail(q[n])) = Len(q[n]) - 1 /\ Len(q[n]) \in Nat /\ Len(q[n]) > 0
      /\ Head(q[n]) = q[n][1]
      /\ \A i \in 1..Len(Tail(q[n])) : Tail(q[n])[i] = q[n][i+1] /\ i+1 \in 1..Len(q[n])
  BY TailElements
<1>2. DOMAIN q2 = DOMAIN q /\ q2[n] = Tail(q[n]) /\ \A m \in DOMAIN q : m # n => q2[m] = q[m]
  OBVIOUS
<1> DEFINE at(m, i) == IF m = n THEN i + 1 ELSE i
<1>3. ASSUME NEW m \in DOMAIN q, NEW i \in 1..Len(q2[m])
      PROVE  /\ at(m, i) \in 1..Len(q[m]) /\ q2[m][i] = q[m][at(m, i)]
             /\ m = n => at(m, i) # 1
  BY <1>1, <1>2
<1>4. ASSUME NEW l \in DOMAIN q, NEW m \in DOMAIN q, NEW i \in 1..Len(q2[l]), NEW j \in 1..Len(q2[m]),
             q2[l][i] \in B, q2[l][i] = q2[m][j]
      PROVE  l = m /\ i = j
  <2>1. at(l, i) \in 1..Len(q[l]) /\ at(m, j) \in 1..Len(q[m]) /\ q[l][at(l, i)] = q[m][at(m, j)]
        /\ q[l][at(l, i)] \in B
    BY <1>3, <1>4
  <2>2. l = m /\ at(l, i) = at(m, j)
    BY <2>1 DEF OnePlace
  <2> QED BY <2>2, <1>1, <1>2
<1>5. x \in B => /\ 1 \in 1..Len(q[n]) /\ q[n][1] = x
                 /\ \A r \in DOMAIN h : h[r] # x
  BY <1>1 DEF OnePlace
<1>6. ASSUME NEW r \in DOMAIN h, NEW t \in DOMAIN h, h2[r] \in B, h2[r] = h2[t]
      PROVE  r = t
  BY <1>5, <1>6 DEF OnePlace
<1>7. ASSUME NEW m \in DOMAIN q, NEW i \in 1..Len(q2[m]), NEW t \in DOMAIN h, q2[m][i] \in B
      PROVE  q2[m][i] # h2[t]
  <2>1. at(m, i) \in 1..Len(q[m]) /\ q2[m][i] = q[m][at(m, i)] /\ (m = n => at(m, i) # 1)
    BY <1>3
  <2>2. CASE t = s
    <3>1. SUFFICES ASSUME q2[m][i] = x PROVE FALSE
      BY <2>2
    <3>2. q[m][at(m, i)] = q[n][1] /\ q[m][at(m, i)] \in B /\ 1 \in 1..Len(q[n])
      BY <2>1, <3>1, <1>5, <1>7
    <3>3. \A k \in 1..Len(q[m]) : q[m][k] \in B /\ q[m][k] = q[n][1] => m = n /\ k = 1
      BY <3>2 DEF OnePlace
    <3> QED BY <3>2, <3>3, <2>1
  <2>3. CASE t # s
    BY <2>1, <2>3, <1>7 DEF OnePlace
  <2> QED BY <2>2, <2>3
<1> QED BY <1>2, <1>4, <1>6, <1>7 DEF OnePlace

\* A buffer popped into a variable that held none is not lost.
LEMMA PopKeepsSome ==
  ASSUME NEW B, NEW q, NEW h, NEW n, NEW s, NEW x, NEW q2, NEW h2,
         Popped(q, n, q2), Assigned(h, s, x, h2), x = Head(q[n]) \/ Head(q[n]) \notin B,
         h[s] \notin B, SomePlace(B, q, h)
  PROVE  SomePlace(B, q2, h2)
<1> USE DEF Popped, Assigned
<1>1. /\ Len(Tail(q[n])) = Len(q[n]) - 1 /\ Len(q[n]) \in Nat /\ Len(q[n]) > 0
      /\ Head(q[n]) = q[n][1]
      /\ \A i \in 1..Len(Tail(q[n])) : Tail(q[n])[i] = q[n][i+1]
  BY TailElements
<1>2. DOMAIN q2 = DOMAIN q /\ q2[n] = Tail(q[n]) /\ \A m \in DOMAIN q : m # n => q2[m] = q[m]
  OBVIOUS
<1> SUFFICES ASSUME NEW b \in B
             PROVE  \/ \E m \in DOMAIN q : \E i \in 1..Len(q2[m]) : q2[m][i] = b
                    \/ \E r \in DOMAIN h : h2[r] = b
  BY <1>2 DEF SomePlace
<1>3. CASE \E r \in DOMAIN h : h[r] = b
  BY <1>3
<1>4. ASSUME NEW m \in DOMAIN q, NEW i \in 1..Len(q[m]), q[m][i] = b
      PROVE  \/ \E l \in DOMAIN q : \E j \in 1..Len(q2[l]) : q2[l][j] = b
             \/ \E r \in DOMAIN h : h2[r] = b
  <2>1. CASE m # n
    BY <2>1, <1>2, <1>4
  <2>2. CASE m = n /\ i = 1
    BY <2>2, <1>1, <1>4
  <2>3. CASE m = n /\ i # 1
    <3>1. i - 1 \in 1..Len(q2[n]) /\ q2[n][i-1] = b
      BY <2>3, <1>1, <1>2, <1>4
    <3> QED BY <3>1
  <2> QED BY <2>1, <2>2, <2>3
<1> QED BY <1>3, <1>4 DEF SomePlace

\* A sentinel popped changes nothing.
LEMMA PopSentinelKeeps ==
  ASSUME NEW B, NEW q, NEW h, NEW n, NEW q2, Popped(q, n, q2), Head(q[n]) \notin B
  PROVE  /\ OnePlace(B, q, h) => OnePlace(B, q2, h)
         /\ SomePlace(B, q, h) => SomePlace(B, q2, h)
<1> USE DEF Popped
<1>1. /\ Len(Tail(q[n])) = Len(q[n]) - 1 /\ Len(q[n]) \in Nat /\ Len(q[n]) > 0
      /\ Head(q[n]) = q[n][1]
      /\ \A i \in 1..Len(Tail(q[n])) : Tail(q[n])[i] = q[n][i+1] /\ i+1 \in 1..Len(q[n])
  BY TailElements
<1>2. DOMAIN q2 = DOMAIN q /\ q2[n] = Tail(q[n]) /\ \A m \in DOMAIN q : m # n => q2[m] = q[m]
  OBVIOUS
<1> DEFINE at(m, i) == IF m = n THEN i + 1 ELSE i
<1>3. ASSUME NEW m \in DOMAIN q, NEW i \in 1..Len(q2[m])
      PROVE  at(m, i) \in 1..Len(q[m]) /\ q2[m][i] = q[m][at(m, i)]
  BY <1>1, <1>2
<1>4. ASSUME OnePlace(B, q, h) PROVE OnePlace(B, q2, h)
  <2>1. ASSUME NEW l \in DOMAIN q, NEW m \in DOMAIN q, NEW i \in 1..Len(q2[l]), NEW j \in 1..Len(q2[m]),
               q2[l][i] \in B, q2[l][i] = q2[m][j]
        PROVE  l = m /\ i = j
    <3>1. at(l, i) \in 1..Len(q[l]) /\ at(m, j) \in 1..Len(q[m]) /\ q[l][at(l, i)] = q[m][at(m, j)]
          /\ q[l][at(l, i)] \in B
      BY <1>3, <2>1
    <3>2. l = m /\ at(l, i) = at(m, j)
      BY <3>1, <1>4 DEF OnePlace
    <3> QED BY <3>2, <1>1, <1>2
  <2>2. ASSUME NEW m \in DOMAIN q, NEW i \in 1..Len(q2[m]), NEW t \in DOMAIN h, q2[m][i] \in B
        PROVE  q2[m][i] # h[t]
    BY <1>3, <1>4, <2>2 DEF OnePlace
  <2>3. \A r, t \in DOMAIN h : h[r] \in B /\ h[r] = h[t] => r = t
    BY <1>4 DEF OnePlace
  <2> QED BY <1>2, <2>1, <2>2, <2>3 DEF OnePlace
<1>5. ASSUME SomePlace(B, q, h) PROVE SomePlace(B, q2, h)
  <2> SUFFICES ASSUME NEW b \in B, NEW m \in DOMAIN q, NEW i \in 1..Len(q[m]), q[m][i] = b
               PROVE  \E l \in DOMAIN q : \E j \in 1..Len(q2[l]) : q2[l][j] = b
    BY <1>2, <1>5 DEF SomePlace
  <2>1. CASE m # n
    BY <2>1, <1>2
  <2>2. CASE m = n
    <3>1. i - 1 \in 1..Len(q2[n]) /\ q2[n][i-1] = b
      BY <2>2, <1>1, <1>2
    <3> QED BY <3>1
  <2> QED BY <2>1, <2>2
<1> QED BY <1>4, <1>5

-----------------------------------------------------------------------------
\* The variable an id is pushed from no longer holds it.
LEMMA PushKeepsOne ==
  ASSUME NEW B, NEW q, NEW h, NEW n, NEW s, NEW x, NEW q2, NEW h2,
         Pushed(q, n, h[s], q2), Assigned(h, s, x, h2), x \notin B, OnePlace(B, q, h)
  PROVE  OnePlace(B, q2, h2)
<1> USE DEF Pushed, Assigned
<1>1. /\ Len(Append(q[n], h[s])) = Len(q[n]) + 1 /\ Len(q[n]) \in Nat
      /\ \A i \in 1..Len(Append(q[n], h[s])) :
           Append(q[n], h[s])[i] = IF i = Len(q[n]) + 1 THEN h[s] ELSE q[n][i]
  BY AppendElements
<1>2. DOMAIN q2 = DOMAIN q /\ q2[n] = Append(q[n], h[s]) /\ \A m \in DOMAIN q : m # n => q2[m] = q[m]
  OBVIOUS
<1> DEFINE new(m, i) == m = n /\ i = Len(q[n]) + 1
<1>3. ASSUME NEW m \in DOMAIN q, NEW i \in 1..Len(q2[m])
      PROVE  /\ new(m, i) => q2[m][i] = h[s]
             /\ ~new(m, i) => i \in 1..Len(q[m]) /\ q2[m][i] = q[m][i]
  BY <1>1, <1>2
<1>4. ASSUME NEW l \in DOMAIN q, NEW m \in DOMAIN q, NEW i \in 1..Len(q2[l]), NEW j \in 1..Len(q2[m]),
             q2[l][i] \in B, q2[l][i] = q2[m][j]
      PROVE  l = m /\ i = j
  <2>1. CASE new(l, i) /\ new(m, j)
    BY <2>1
  <2>2. CASE new(l, i) /\ ~new(m, j)
    BY <2>2, <1>3, <1>4 DEF OnePlace
  <2>3. CASE ~new(l, i) /\ new(m, j)
    BY <2>3, <1>3, <1>4 DEF OnePlace
  <2>4. CASE ~new(l, i) /\ ~new(m, j)
    BY <2>4, <1>3, <1>4 DEF OnePlace
  <2> QED BY <2>1, <2>2, <2>3, <2>4
<1>5. ASSUME NEW r \in DOMAIN h, NEW t \in DOMAIN h, h2[r] \in B, h2[r] = h2[t]
      PROVE  r = t
  BY <1>5 DEF OnePlace
<1>6. ASSUME NEW m \in DOMAIN q, NEW i \in 1..Len(q2[m]), NEW t \in DOMAIN h, q2[m][i] \in B
      PROVE  q2[m][i] # h2[t]
  <2>1. CASE new(m, i)
    BY <2>1, <1>3, <1>6 DEF OnePlace
  <2>2. CASE ~new(m, i)
    BY <2>2, <1>3, <1>6 DEF OnePlace
  <2> QED BY <2>1, <2>2
<1> QED BY <1>2, <1>4, <1>5, <1>6 DEF OnePlace

\* A buffer pushed is in the queue afterwards.
LEMMA PushKeepsSome ==
  ASSUME NEW B, NEW q, NEW h, NEW n, NEW s, NEW x, NEW q2, NEW h2,
         Pushed(q, n, h[s], q2), Assigned(h, s, x, h2), SomePlace(B, q, h)
  PROVE  SomePlace(B, q2, h2)
<1> USE DEF Pushed, Assigned
<1>1. /\ Len(Append(q[n], h[s])) = Len(q[n]) + 1 /\ Len(q[n]) \in Nat
      /\ \A i \in 1..Len(Append(q[n], h[s])) :
           Append(q[n], h[s])[i] = IF i = Len(q[n]) + 1 THEN h[s] ELSE q[n][i]
  BY AppendElements
<1>2. DOMAIN q2 = DOMAIN q /\ q2[n] = Append(q[n], h[s]) /\ \A m \in DOMAIN q : m # n => q2[m] = q[m]
  OBVIOUS
<1> SUFFICES ASSUME NEW b \in B
             PROVE  \/ \E m \in DOMAIN q : \E i \in 1..Len(q2[m]) : q2[m][i] = b
                    \/ \E r \in DOMAIN h : h2[r] = b
  BY <1>2 DEF SomePlace
<1>3. ASSUME NEW r \in DOMAIN h, h[r] = b, r # s
      PROVE  \E t \in DOMAIN h : h2[t] = b
  BY <1>3
<1>4. ASSUME h[s] = b PROVE \E m \in DOMAIN q : \E i \in 1..Len(q2[m]) : q2[m][i] = b
  <2>1. Len(q[n]) + 1 \in 1..Len(q2[n]) /\ q2[n][Len(q[n]) + 1] = b
    BY <1>1, <1>2, <1>4
  <2> QED BY <2>1
<1>5. ASSUME NEW m \in DOMAIN q, NEW i \in 1..Len(q[m]), q[m][i] = b
      PROVE  \E l \in DOMAIN q : \E j \in 1..Len(q2[l]) : q2[l][j] = b
  <2>1. i \in 1..Len(q2[m]) /\ q2[m][i] = b
    BY <1>1, <1>2, <1>5
  <2> QED BY <2>1
<1> QED BY <1>3, <1>4, <1>5 DEF SomePlace

\* A sentinel pushed changes nothing.
LEMMA PushSentinelKeeps ==
  ASSUME NEW B, NEW q, NEW h, NEW n, NEW e, NEW q2, Pushed(q, n, e, q2), e \notin B
  PROVE  /\ OnePlace(B, q, h) => OnePlace(B, q2, h)
         /\ SomePlace(B, q, h) => SomePlace(B, q2, h)
<1> USE DEF Pushed
<1>1. /\ Len(Append(q[n], e)) = Len(q[n]) + 1 /\ Len(q[n]) \in Nat
      /\ \A i \in 1..Len(Append(q[n], e)) :
           Append(q[n], e)[i] = IF i = Len(q[n]) + 1 THEN e ELSE q[n][i]
  BY AppendElements
<1>2. DOMAIN q2 = DOMAIN q /\ q2[n] = Append(q[n], e) /\ \A m \in DOMAIN q : m # n => q2[m] = q[m]
  OBVIOUS
<1>3. ASSUME NEW m \in DOMAIN q, NEW i \in 1..Len(q2[m]), q2[m][i] \in B
      PROVE  i \in 1..Len(q[m]) /\ q2[m][i] = q[m][i]
  BY <1>1, <1>2, <1>3
<1>4. ASSUME OnePlace(B, q, h) PROVE OnePlace(B, q2, h)
  <2>1. ASSUME NEW l \in DOMAIN q, NEW m \in DOMAIN q, NEW i \in 1..Len(q2[l]), NEW j \in 1..Len(q2[m]),
               q2[l][i] \in B, q2[l][i] = q2[m][j]
        PROVE  l = m /\ i = j
    <3>1. i \in 1..Len(q[l]) /\ j \in 1..Len(q[m]) /\ q[l][i] = q[m][j] /\ q[l][i] \in B
      BY <1>3, <2>1
    <3> QED BY <3>1, <1>4 DEF OnePlace
  <2>2. ASSUME NEW m \in DOMAIN q, NEW i \in 1..Len(q2[m]), NEW t \in DOMAIN h, q2[m][i] \in B
        PROVE  q2[m][i] # h[t]
    BY <1>3, <1>4, <2>2 DEF OnePlace
  <2>3. \A r, t \in DOMAIN h : h[r] \in B /\ h[r] = h[t] => r = t
    BY <1>4 DEF OnePlace
  <2> QED BY <1>2, <2>1, <2>2, <2>3 DEF OnePlace
<1>5. ASSUME SomePlace(B, q, h) PROVE SomePlace(B, q2, h)
  <2>1. ASSUME NEW m \in DOMAIN q, NEW i \in 1..Len(q[m])
        PROVE  i \in 1..Len(q2[m]) /\ q2[m][i] = q[m][i]
    BY <1>1, <1>2
  <2> QED BY <1>2, <1>5, <2>1 DEF SomePlace
<1> QED BY <1>4, <1>5

\* An id moved from one variable of a thread to another that held none.
LEMMA MoveKeeps ==
  ASSUME NEW B, NEW q, NEW h, NEW r, NEW s, NEW x, NEW h2,
         Moved(h, r, s, x, h2), x \notin B, h[s] \notin B
  PROVE  /\ OnePlace(B, q, h) => OnePlace(B, q, h2)
         /\ SomePlace(B, q, h) => SomePlace(B, q, h2)
<1> USE DEF Moved
<1>1. OnePlace(B, q, h) => OnePlace(B, q, h2)
  BY DEF OnePlace
<1>2. ASSUME SomePlace(B, q, h) PROVE SomePlace(B, q, h2)
  <2>1. ASSUME NEW t \in DOMAIN h, h[t] \in B PROVE \E u \in DOMAIN h : h2[u] = h[t]
    BY <2>1
  <2> QED BY <1>2, <2>1 DEF SomePlace
<1> QED BY <1>1, <1>2

-----------------------------------------------------------------------------
\* Q are the positions of queues, and H the variables, where there is a buffer.
QueuePlaces(B, q, Q) ==
  \A p : p \in Q <=> \E n \in DOMAIN q : \E i \in 1..Len(q[n]) : p = <<n, i>> /\ q[n][i] \in B

HeldPlaces(B, h, H) == \A s : s \in H <=> s \in DOMAIN h /\ h[s] \in B

\* These places hold as many ids as there are buffers, and no buffer is missing.
PlacesSuffice(B, q, h, Q, H) ==
  /\ Cardinality(Q) + Cardinality(H) = Cardinality(B)
  /\ {q[p[1]][p[2]] : p \in Q} \cup {h[s] : s \in H} = B

\* If every buffer is in exactly one place, as many places hold a buffer as there
\* are buffers, and no buffer is missing.
LEMMA PlacesCount ==
  ASSUME NEW B, IsFiniteSet(B), NEW q, NEW h, OnePlace(B, q, h), SomePlace(B, q, h),
         NEW Q, QueuePlaces(B, q, Q), NEW H, HeldPlaces(B, h, H)
  PROVE  PlacesSuffice(B, q, h, Q, H)
<1> USE DEF QueuePlaces, HeldPlaces
<1> DEFINE queued == {q[p[1]][p[2]] : p \in Q}
           held == {h[s] : s \in H}
           atQ == [p \in Q |-> q[p[1]][p[2]]]
           atH == [s \in H |-> h[s]]
<1>1. queued \subseteq B /\ held \subseteq B /\ queued \cap held = {}
  BY DEF OnePlace
<1>2. queued \cup held = B
  <2> SUFFICES ASSUME NEW b \in B PROVE b \in queued \/ b \in held
    BY <1>1
  <2>1. ASSUME NEW n \in DOMAIN q, NEW i \in 1..Len(q[n]), q[n][i] = b PROVE b \in queued
    <3>1. <<n, i>> \in Q
      BY <2>1
    <3> QED BY <2>1, <3>1
  <2>2. ASSUME NEW s \in DOMAIN h, h[s] = b PROVE b \in held
    BY <2>2
  <2> QED BY <2>1, <2>2 DEF SomePlace
<1>3. atQ \in Bijection(Q, queued)
  <2>1. ASSUME NEW p \in Q, NEW r \in Q, q[p[1]][p[2]] = q[r[1]][r[2]] PROVE p = r
    BY <2>1 DEF OnePlace
  <2>2. atQ \in Injection(Q, queued)
    BY <2>1 DEF Injection, IsInjective
  <2>3. atQ \in Surjection(Q, queued)
    BY DEF Surjection
  <2> QED BY <2>2, <2>3 DEF Bijection
<1>4. atH \in Bijection(H, held)
  <2>1. ASSUME NEW p \in H, NEW r \in H, h[p] = h[r] PROVE p = r
    BY <2>1 DEF OnePlace
  <2>2. atH \in Injection(H, held)
    BY <2>1 DEF Injection, IsInjective
  <2>3. atH \in Surjection(H, held)
    BY DEF Surjection
  <2> QED BY <2>2, <2>3 DEF Bijection
<1>5. IsFiniteSet(queued) /\ IsFiniteSet(held)
  BY <1>1, FS_Subset
<1> HIDE DEF queued, held, atQ, atH
<1>6. Cardinality(Q) = Cardinality(queued) /\ Cardinality(H) = Cardinality(held)
  <2>1. ExistsBijection(queued, Q) /\ ExistsBijection(held, H)
    BY <1>3, <1>4, Fun_BijInverse DEF ExistsBijection
  <2> QED BY <2>1, <1>5, FS_Bijection
<1>7. Cardinality(B) = Cardinality(queued) + Cardinality(held) - Cardinality(queued \cap held)
  BY <1>2, <1>5, FS_Union
<1>8. Cardinality(queued \cap held) = 0
  BY <1>1, FS_EmptySet
<1>9. Cardinality(queued) \in Nat /\ Cardinality(held) \in Nat
  BY <1>5, FS_CardinalityType
<1>10. Cardinality(Q) + Cardinality(H) = Cardinality(B)
  BY <1>6, <1>7, <1>8, <1>9
<1> QED BY <1>2, <1>10 DEF PlacesSuffice, queued, held
=============================================================================
