--------------------------- MODULE BucketProofs -----------------------------
(***************************************************************************)
(* The token bucket for any number of calls, in any order, with any        *)
(* clocks, resends, lost copies, expiries and restarts: its budget, that   *)
(* what callers were granted was paid for, and the wait a refusal names.   *)
(***************************************************************************)
EXTENDS TokenBucket, CallProofs, FiniteSetTheorems

\* The smaller of two numbers, as math.min(capacity, tokens + refill) takes it.
LEMMA MinOfTwo ==
    \A a, b \in Int : /\ Min({a, b}) \in {a, b}
                      /\ Min({a, b}) <= a
                      /\ Min({a, b}) <= b
  <1> TAKE a, b \in Int
  <1>1. \E x \in {a, b} : \A y \in {a, b} : x <= y
    <2>1. CASE a <= b
      BY <2>1
    <2>2. CASE b < a
      BY <2>2
    <2>q. QED BY <2>1, <2>2
  <1>q. QED BY <1>1 DEF Min

\* Products the linear solver is not asked to find by itself.
LEMMA Products ==
    /\ \A k, x, y \in Int : k * (x + y) = k * x + k * y
    /\ \A k, x \in Nat : k * x \in Nat
    /\ \A k, x \in Int : k * x \in Int
    /\ \A k \in Int : k * 1 = k /\ k * 0 = 0
  OBVIOUS

\* Refilling leaves between 0 and Capacity tokens, and adds to an existing
\* bucket at most Rate for each tick elapsed.
LEMMA RefillBounds ==
    ASSUME bucket \in Bucket, NEW stamp \in Nat
    PROVE  /\ Elapsed(bucket, stamp) \in Nat
           /\ Refilled(bucket, stamp) \in 0 .. Capacity
           /\ bucket.exists => Refilled(bucket, stamp)
                                 <= bucket.tokens + Rate * Elapsed(bucket, stamp)
           /\ ~bucket.exists => Refilled(bucket, stamp) = Capacity
  <1> DEFINE e == Elapsed(bucket, stamp)
             t == bucket.tokens + Rate * e
  <1>1. e \in Nat /\ bucket.tokens \in Nat /\ Capacity \in Nat /\ Rate \in Nat
    BY BucketAssumption DEF Bucket, Elapsed
  <1>2. Rate * e \in Nat
    BY <1>1, Products
  <1>3. t \in Nat
    BY <1>1, <1>2
  <1>4. /\ Min({Capacity, t}) \in {Capacity, t}
        /\ Min({Capacity, t}) <= Capacity
        /\ Min({Capacity, t}) <= t
    <2> HIDE DEF t
    <2>1. Capacity \in Int /\ t \in Int
      BY <1>1, <1>3
    <2>q. QED BY <2>1, MinOfTwo, Zenon
  <1>5. Refilled(bucket, stamp)
          = IF bucket.exists THEN Min({Capacity, t}) ELSE Capacity
    BY DEF Refilled
  <1> HIDE DEF e, t
  <1>6. Refilled(bucket, stamp) \in 0 .. Capacity
    BY <1>1, <1>3, <1>4, <1>5
  <1>q. QED BY <1>1, <1>4, <1>5, <1>6 DEF e, t

\* Inductive: before the first script there is no bucket and nothing spent.
Inv ==
    /\ TypeOK
    /\ \A r \in Requests : Orderly(call[r])
    /\ Budget
    /\ fills = 0 => ~bucket.exists /\ spent = 0
    /\ fills > 0 => earliest <= start

\* What the script takes was there.
LEMMA ScriptTakes ==
    ASSUME bucket \in Bucket, spent \in Nat, NEW stamp \in Nat, RunScript(stamp)
    PROVE  /\ bucket' \in Bucket /\ bucket'.exists /\ bucket'.last = stamp
           /\ bucket'.idle = 0
           /\ bucket'.tokens \in 0 .. Capacity
           /\ spent' \in Nat
           /\ spent' + bucket'.tokens = spent + Refilled(bucket, stamp)
  <1> DEFINE f == Refilled(bucket, stamp)
  <1>1. /\ Capacity \in Nat /\ Cost \in Nat /\ Ttl \in Nat /\ f \in 0 .. Capacity
    BY BucketAssumption, RefillBounds
  <1>2. CASE f >= Cost
    <2>1. bucket' = [exists |-> TRUE, last |-> stamp, idle |-> 0,
                     tokens |-> f - Cost]
      BY <1>2 DEF RunScript, Stored, Allows
    <2>2. spent' = spent + Cost
      BY <1>2 DEF RunScript, Allows
    <2> HIDE DEF f
    <2>3. f - Cost \in 0 .. Capacity
      BY <1>1, <1>2
    <2>4. spent' + (f - Cost) = spent + f /\ spent' \in Nat
      BY <1>1, <2>2
    <2> QED  BY <1>1, <2>1, <2>3, <2>4 DEF Bucket, f
  <1>3. CASE ~(f >= Cost)
    <2>1. bucket' = [exists |-> TRUE, last |-> stamp, idle |-> 0, tokens |-> f]
      BY <1>3 DEF RunScript, Stored, Allows
    <2>2. spent' = spent
      BY <1>3 DEF RunScript, Allows
    <2> HIDE DEF f
    <2> QED  BY <1>1, <2>1, <2>2 DEF Bucket, f
  <1> QED  BY <1>2, <1>3

\* One run of the script keeps the types and the budget.
LEMMA ScriptKeepsBudget ==
    ASSUME Inv, NEW stamp \in Nat, RunScript(stamp)
    PROVE  /\ bucket' \in Bucket
           /\ spent' \in Nat /\ fills' \in Nat /\ start' \in Nat /\ rewound' \in Nat
           /\ earliest' \in Nat /\ earliest' <= start'
           /\ fills' > 0
           /\ Budget'
  <1> DEFINE e == Elapsed(bucket, stamp)
             f == Refilled(bucket, stamp)
             x == bucket.last - start + rewound
  <1>1. /\ bucket \in Bucket
        /\ spent \in Nat /\ fills \in Nat /\ start \in Nat /\ rewound \in Nat
        /\ earliest \in Nat
        /\ Capacity \in Nat /\ Rate \in Nat /\ Cost \in Nat /\ Ttl \in Nat
    BY BucketAssumption DEF Inv, TypeOK
  <1>2. bucket.last \in Nat /\ bucket.tokens \in Nat /\ bucket.exists \in BOOLEAN
    BY <1>1 DEF Bucket
  <1>3. /\ e \in Nat
        /\ f \in 0 .. Capacity
        /\ bucket.exists => f <= bucket.tokens + Rate * e
        /\ ~bucket.exists => f = Capacity
    BY <1>1, RefillBounds
  <1>4. /\ bucket'.exists /\ bucket'.last = stamp
        /\ bucket'.tokens \in 0 .. Capacity
        /\ spent' \in Nat
        /\ spent' + bucket'.tokens = spent + f
        /\ bucket' \in Bucket
    BY <1>1, ScriptTakes
  <1>5. /\ fills' \in Nat /\ fills' > 0 /\ start' \in Nat /\ rewound' \in Nat
        /\ fills' = IF bucket.exists THEN fills ELSE fills + 1
    <2>1. fills = 0 => ~bucket.exists
      BY DEF Inv
    <2>q. QED BY <2>1, <1>1, <1>2 DEF RunScript
  <1>6. Available' = bucket'.tokens
    BY <1>4 DEF Available
  <1>7. spent + f <= Capacity * fills' + Rate * (stamp - start' + rewound')
    <2>1. CASE fills = 0
      <3>1. /\ ~bucket.exists /\ spent = 0 /\ fills' = 1 /\ start' = stamp
            /\ rewound' = rewound
        BY <2>1, <1>1, <1>5 DEF Inv, RunScript
      <3>2. stamp - start' + rewound' = rewound
        BY <3>1, <1>1
      <3>3. Rate * rewound \in Nat /\ Capacity * 1 = Capacity
        BY <1>1, Products
      <3>q. QED BY <3>1, <3>2, <3>3, <1>1, <1>3
    <2>2. CASE fills > 0
      <3>1. start' = start /\ stamp - start' + rewound' = x + e /\ x \in Int
        BY <2>2, <1>1, <1>2 DEF RunScript, Elapsed
      <3>2. spent + Available <= Capacity * fills + Rate * x
        BY <2>2 DEF Inv, Budget
      <3> HIDE DEF x, e, f
      <3>3. /\ Rate * (x + e) = Rate * x + Rate * e
            /\ Rate * e \in Nat /\ Rate * x \in Int /\ Capacity * fills \in Int
        BY <1>1, <1>3, <3>1, Products
      <3>4. CASE bucket.exists
        <4>1. fills' = fills /\ Available = bucket.tokens
          BY <3>4, <1>5 DEF Available
        <4>q. QED BY <4>1, <3>1, <3>2, <3>3, <3>4, <1>1, <1>2, <1>3
      <3>5. CASE ~bucket.exists
        <4>1. fills' = fills + 1 /\ Available = 0
          BY <3>5, <1>5 DEF Available
        <4>2. Capacity * (fills + 1) = Capacity * fills + Capacity
          BY <1>1, Products
        <4>q. QED BY <4>1, <4>2, <3>1, <3>2, <3>3, <3>5, <1>1, <1>3
      <3>q. QED BY <3>4, <3>5
    <2>q. QED BY <2>1, <2>2, <1>1
  <1>8. Budget'
    BY <1>4, <1>6, <1>7 DEF Budget
  <1>9. earliest' \in Nat /\ earliest' <= start'
    <2>1. fills > 0 => earliest <= start
      BY DEF Inv
    <2>2. /\ start' = IF fills = 0 THEN stamp ELSE start
          /\ earliest' = IF fills = 0 \/ stamp < earliest THEN stamp ELSE earliest
      BY DEF RunScript
    <2>q. QED BY <1>1, <2>1, <2>2
  <1>q. QED BY <1>4, <1>5, <1>8, <1>9

\* Steps that run no script leave the bucket's content alone or lose the key,
\* and so keep the budget.
LEMMA QuietKeepsBudget ==
    ASSUME Inv, UNCHANGED history,
           bucket'.last = bucket.last, bucket'.tokens = bucket.tokens,
           bucket'.exists => bucket.exists
    PROVE  Budget' /\ (fills' = 0 => ~bucket'.exists /\ spent' = 0)
  <1>1. bucket.tokens \in Nat /\ spent \in Nat
    BY DEF Inv, TypeOK, Bucket
  <1>2. Available' \in Nat /\ Available \in Nat /\ Available' <= Available
    BY <1>1 DEF Available
  <1>3. /\ fills' = fills /\ spent' = spent /\ start' = start
        /\ rewound' = rewound
    BY DEF history
  <1>4. CASE fills > 0
    <2> DEFINE b == Capacity * fills + Rate * (bucket.last - start + rewound)
    <2>1. spent + Available <= b
      BY <1>4 DEF Inv, Budget
    <2>2. b \in Int
      <3>1. /\ bucket.last - start + rewound \in Int
            /\ Capacity \in Int /\ fills \in Int /\ Rate \in Int
        BY BucketAssumption DEF Inv, TypeOK, Bucket
      <3>2. Capacity * fills \in Int /\ Rate * (bucket.last - start + rewound) \in Int
        BY <3>1, Products
      <3>q. QED BY <3>2
    <2>3. b = Capacity * fills' + Rate * (bucket'.last - start' + rewound')
      BY <1>3
    <2> HIDE DEF b
    <2>4. spent' + Available' <= b
      <3>1. spent' = spent
        BY <1>3
      <3>2. \A x, y, z \in Int : x + y <= b /\ z <= y => x + z <= b
        BY <2>2
      <3>3. spent + Available' <= b
        <4>1. spent \in Int /\ Available \in Int /\ Available' \in Int
          BY <1>1, <1>2
        <4>q. QED BY <4>1, <1>2, <2>1, <3>2, Zenon
      <3>q. QED BY <3>1, <3>3
    <2>5. fills' # 0
      BY <1>3, <1>4
    <2>q. QED BY <2>3, <2>4, <2>5 DEF Budget
  <1>5. CASE ~(fills > 0)
    BY <1>3, <1>5 DEF Budget, Inv
  <1>q. QED BY <1>4, <1>5

\* What becomes of the call a step is about; it is granted what the script
\* allows.
LEMMA CallStep ==
    ASSUME Inv, NEW r \in Requests, NEW yes \in BOOLEAN,
           ClientStep(r) \/ Executed(r, yes)
    PROVE  \E d : /\ call' = [call EXCEPT ![r] = d]
                  /\ Orderly(d)
                  /\ \/ Follows(d, call[r], now)
                     \/ /\ Executed(r, yes)
                        /\ d.stage = "waiting" /\ d.stamp = call[r].stamp
                        /\ Granted(d) => yes
  <1> DEFINE c == call[r]
  <1>1. call \in [Requests -> Call] /\ now \in Nat /\ Orderly(c)
    BY BucketAssumption DEF Inv, TypeOK
  <1>2. CASE ClientStep(r)
    <2>1. PICK d : Follows(d, c, now) /\ call' = [call EXCEPT ![r] = d]
      BY <1>1, <1>2, ClientFollows
    <2> QED  BY <2>1 DEF Follows
  <1>3. CASE Executed(r, yes)
    <2> DEFINE reply == IF yes THEN "allow" ELSE "deny"
               d == [c EXCEPT !.sent = FALSE, !.reply = reply]
    <2>1. c.sent /\ call' = [call EXCEPT ![r] = d]
      BY <1>1, <1>3 DEF Executed
    <2>2. reply \in {"allow", "deny"} /\ (reply = "allow" => yes)
      OBVIOUS
    <2> HIDE DEF reply
    <2>3. /\ Orderly(d) /\ d.stage = "waiting" /\ d.stamp = c.stamp
          /\ Granted(d) <=> reply = "allow"
      BY <1>1, <2>1, <2>2, ExecutedFollows
    <2> HIDE DEF d
    <2> QED  BY <1>3, <2>1, <2>2, <2>3
  <1> QED  BY <1>2, <1>3

\* The calls stay in order.
LEMMA CallTypes ==
    ASSUME Inv, NEW r \in Requests,
           \/ ClientStep(r)
           \/ \E allows \in BOOLEAN : Executed(r, allows)
    PROVE  /\ call' \in [Requests -> Call]
           /\ (\A q \in Requests : Orderly(call[q]))'
  <1>1. PICK d : call' = [call EXCEPT ![r] = d] /\ Orderly(d)
    BY CallStep
  <1>2. call \in [Requests -> Call] /\ \A q \in Requests : Orderly(call[q])
    BY DEF Inv, TypeOK
  <1>3. \A q \in Requests : call'[q] = IF q = r THEN d ELSE call[q]
    BY <1>1, <1>2
  <1>4. d \in Call
    BY <1>1 DEF Orderly
  <1> QED  BY <1>1, <1>2, <1>3, <1>4

\* Nothing has run yet.
LEMMA InitInv ==
    Init => Inv
  BY CallAssumption, BucketAssumption, NewCallOrderly
  DEF Init, Inv, TypeOK, Bucket, Call, NewCall, Budget

\* Every step keeps the inductive invariant.
LEMMA NextInv ==
    Inv /\ [Next]_vars => Inv'
  <1> SUFFICES ASSUME Inv, [Next]_vars
               PROVE  Inv'
    OBVIOUS
  <1>0. /\ bucket \in Bucket /\ call \in [Requests -> Call]
        /\ now \in 0 .. MaxTime /\ restarts \in 0 .. MaxRestarts
        /\ spent \in Nat /\ fills \in Nat /\ start \in Nat /\ rewound \in Nat
        /\ earliest \in Nat /\ (fills > 0 => earliest <= start)
        /\ Ttl \in Nat \ {0} /\ MaxTime \in Nat /\ MaxRestarts \in Nat
    BY BucketAssumption DEF Inv, TypeOK
  <1>1. ASSUME NEW r \in Requests, Execute(r) \/ ExecuteOrphan(r)
        PROVE  Inv'
    <2>1. call[r].stamp \in Nat
      BY <1>0 DEF Call
    <2>2. RunScript(call[r].stamp) /\ UNCHANGED <<now, restarts>>
      BY <1>1 DEF Execute, ExecuteOrphan
    <2>3. call' \in [Requests -> Call] /\ (\A q \in Requests : Orderly(call[q]))'
      <3>1. OrphanGone(r) \/ Executed(r, Allows(bucket, call[r].stamp))
        BY <1>1 DEF Execute, ExecuteOrphan
      <3>2. Allows(bucket, call[r].stamp) \in BOOLEAN
        BY DEF Allows
      <3>q. QED BY <3>1, <3>2, CallTypes DEF ClientStep
    <2>4. /\ bucket' \in Bucket
          /\ spent' \in Nat /\ fills' \in Nat /\ start' \in Nat /\ rewound' \in Nat
          /\ earliest' \in Nat /\ earliest' <= start'
          /\ fills' > 0
          /\ Budget'
      BY <2>1, <2>2, ScriptKeepsBudget
    <2>q. QED BY <1>0, <2>2, <2>3, <2>4 DEF Inv, TypeOK
  <1>2. ASSUME NEW r \in Requests, ClientStep(r),
               UNCHANGED <<bucket, now, history, restarts>>
        PROVE  Inv'
    <2>1. UNCHANGED <<bucket, now, history, restarts>>
      BY <1>2
    <2>2. call' \in [Requests -> Call] /\ (\A q \in Requests : Orderly(call[q]))'
      BY <1>2, CallTypes
    <2>3. Budget' /\ (fills' = 0 => ~bucket'.exists /\ spent' = 0)
      BY <2>1, QuietKeepsBudget
    <2>q. QED BY <1>0, <2>1, <2>2, <2>3 DEF Inv, TypeOK, history
  <1>3. CASE Restart
    <2>1. /\ UNCHANGED <<call, now, history>> /\ restarts' \in 0 .. MaxRestarts
          /\ bucket' = [bucket EXCEPT !.exists = FALSE]
      BY <1>0, <1>3 DEF Restart
    <2>2. /\ bucket' \in Bucket
          /\ bucket'.last = bucket.last /\ bucket'.tokens = bucket.tokens
          /\ ~bucket'.exists
      BY <1>0, <2>1 DEF Bucket
    <2>3. Budget' /\ (fills' = 0 => ~bucket'.exists /\ spent' = 0)
      BY <2>1, <2>2, QuietKeepsBudget
    <2>q. QED BY <1>0, <2>1, <2>2, <2>3 DEF Inv, TypeOK, history
  <1>4. CASE Tick
    <2>1. /\ UNCHANGED <<call, history, restarts>> /\ now' \in 0 .. MaxTime
          /\ bucket' = [bucket EXCEPT !.idle = IF @ < Ttl THEN @ + 1 ELSE @,
                                      !.exists = @ /\ bucket.idle + 1 < Ttl]
      BY <1>0, <1>4 DEF Tick
    <2>2. /\ bucket' \in Bucket
          /\ bucket'.last = bucket.last /\ bucket'.tokens = bucket.tokens
          /\ bucket'.exists => bucket.exists
      <3> DEFINE x == bucket.exists /\ bucket.idle + 1 < Ttl
                 i == IF bucket.idle < Ttl THEN bucket.idle + 1 ELSE bucket.idle
      <3>1. bucket' = [exists |-> x, tokens |-> bucket.tokens,
                       last |-> bucket.last, idle |-> i]
        BY <1>0, <2>1 DEF Bucket
      <3>2. i \in 0 .. Ttl /\ x \in BOOLEAN
        BY <1>0 DEF Bucket
      <3>3. x => bucket.exists
        OBVIOUS
      <3> HIDE DEF x, i
      <3>q. QED BY <1>0, <3>1, <3>2, <3>3 DEF Bucket
    <2>3. Budget' /\ (fills' = 0 => ~bucket'.exists /\ spent' = 0)
      BY <2>1, <2>2, QuietKeepsBudget
    <2>q. QED BY <1>0, <2>1, <2>2, <2>3 DEF Inv, TypeOK, history
  <1>5. CASE UNCHANGED vars
    BY <1>5 DEF vars, history, Inv, TypeOK, Budget, Available
  <1>q. QED BY <1>1, <1>2, <1>3, <1>4, <1>5 DEF Next

\* token_bucket.lua and check_token_bucket keep their types; in particular the
\* stored tokens always lie between 0 and capacity.
THEOREM TypeCorrect ==
    Spec => []TypeOK
  <1>1. Inv => TypeOK
    BY DEF Inv
  <1>q. QED BY <1>1, InitInv, NextInv, PTL DEF Spec

\* However many gateways share the bucket and however their scripts are
\* reordered, resent or lost, what token_bucket.lua hands out is covered by a
\* Capacity per fresh start and Rate per tick its clock advanced, ticks it was
\* set back over counting again.
THEOREM BudgetKept ==
    Spec => []Budget
  <1>1. Inv => Budget
    BY DEF Inv
  <1>q. QED BY <1>1, InitInv, NextInv, PTL DEF Spec

-----------------------------------------------------------------------------
(* What callers were let through for.                                       *)

Grants == {r \in Requests : Granted(call[r])}

\* The units taken cover every call granted, answered or not.
GrantsPaid == Cost * Cardinality(Grants) <= spent

\* Cost is paid once more for at most one more grant.
LEMMA OneMoreGrant ==
    ASSUME NEW S \in SUBSET Requests, NEW T \in SUBSET Requests, NEW x,
           T \subseteq S \cup {x}
    PROVE  /\ Cost * Cardinality(S) \in Nat /\ Cost * Cardinality(T) \in Nat
           /\ Cost * Cardinality(T) <= Cost * Cardinality(S) + Cost
           /\ T \subseteq S => Cost * Cardinality(T) <= Cost * Cardinality(S)
  <1>1. Cost \in Nat /\ IsFiniteSet(S) /\ IsFiniteSet(T)
    BY BucketAssumption, CallAssumption, FS_Subset
  <1> DEFINE m == Cardinality(S)
             n == Cardinality(T)
  <1>2. m \in Nat /\ n \in Nat
    BY <1>1, FS_CardinalityType
  <1>3. n <= m + 1
    <2> DEFINE U == S \cup {x}
    <2>1. IsFiniteSet(U) /\ Cardinality(U) <= m + 1 /\ Cardinality(U) \in Nat
      BY <1>1, <1>2, FS_AddElement
    <2>2. T \in SUBSET U
      OBVIOUS
    <2> HIDE DEF U
    <2>3. n <= Cardinality(U)
      BY <2>1, <2>2, FS_Subset
    <2> HIDE DEF m, n
    <2> QED  BY <1>2, <2>1, <2>3
  <1>4. T \subseteq S => n <= m
    BY <1>1, FS_Subset
  <1> HIDE DEF m, n
  <1>5. \A p, q \in Nat : p <= q => Cost * p \in Nat /\ Cost * p <= Cost * q
    <2> TAKE p, q \in Nat
    <2> HAVE p <= q
    <2>1. q - p \in Nat /\ Cost * (q - p) \in Nat /\ Cost * p \in Nat
      BY <1>1, Products
    <2>2. Cost * q = Cost * p + Cost * (q - p)
      <3>1. q = p + (q - p) /\ p \in Int /\ q - p \in Int /\ Cost \in Int
        BY <1>1
      <3>2. Cost * (p + (q - p)) = Cost * p + Cost * (q - p)
        BY <3>1, Products
      <3> QED  BY <3>1, <3>2
    <2> QED  BY <2>1, <2>2
  <1>6. Cost * (m + 1) = Cost * m + Cost /\ m + 1 \in Nat
    BY <1>1, <1>2, Products
  <1> QED  BY <1>2, <1>3, <1>4, <1>5, <1>6 DEF m, n

\* Every step pays for what it grants.
LEMMA NextPaid == Inv /\ GrantsPaid /\ [Next]_vars => GrantsPaid'
  <1> SUFFICES ASSUME Inv, GrantsPaid, [Next]_vars PROVE GrantsPaid'
    OBVIOUS
  <1>1. /\ call \in [Requests -> Call] /\ spent \in Nat /\ Cost \in Nat
        /\ Grants \in SUBSET Requests /\ Grants' \in SUBSET Requests
    BY BucketAssumption DEF Inv, TypeOK, Grants
  <1>2. ASSUME spent' \in Nat, spent' >= spent, Grants' \subseteq Grants
        PROVE  GrantsPaid'
    <2> DEFINE S == Grants
               T == Grants'
    <2>1. /\ Cost * Cardinality(S) \in Nat /\ Cost * Cardinality(T) \in Nat
          /\ Cost * Cardinality(T) <= Cost * Cardinality(S)
      <3>1. S \in SUBSET Requests /\ T \in SUBSET Requests
            /\ T \subseteq S /\ T \subseteq S \cup {0}
        BY <1>1, <1>2
      <3> HIDE DEF S, T
      <3> QED  BY <3>1, OneMoreGrant
    <2>2. Cost * Cardinality(S) <= spent
      BY DEF GrantsPaid
    <2>3. Cost * Cardinality(T) <= spent'
      <3> HIDE DEF S, T
      <3> QED  BY <1>1, <1>2, <2>1, <2>2
    <2> QED  BY <2>3 DEF GrantsPaid
  <1>3. ASSUME NEW r \in Requests, NEW d, call' = [call EXCEPT ![r] = d]
        PROVE  /\ Grants' \subseteq Grants \cup {r}
               /\ (Granted(d) => Granted(call[r])) => Grants' \subseteq Grants
    <2>1. \A q \in Requests : call'[q] = IF q = r THEN d ELSE call[q]
      BY <1>1, <1>3
    <2> QED  BY <2>1 DEF Grants
  <1>4. ASSUME NEW r \in Requests, Execute(r) \/ ExecuteOrphan(r)
        PROVE  GrantsPaid'
    <2> DEFINE yes == Allows(bucket, call[r].stamp)
    <2>1. /\ RunScript(call[r].stamp) /\ yes \in BOOLEAN
          /\ ClientStep(r) \/ Executed(r, yes)
      BY <1>4 DEF Execute, ExecuteOrphan, ClientStep, Allows
    <2>2. spent' = IF yes THEN spent + Cost ELSE spent
      BY <2>1 DEF RunScript
    <2> HIDE DEF yes
    <2>3. PICK d : /\ call' = [call EXCEPT ![r] = d]
                   /\ Orderly(d)
                   /\ \/ Follows(d, call[r], now)
                      \/ /\ Executed(r, yes)
                         /\ d.stage = "waiting" /\ d.stamp = call[r].stamp
                         /\ Granted(d) => yes
      BY <2>1, CallStep
    <2>4. CASE Granted(d) => Granted(call[r])
      <3>1. Grants' \subseteq Grants
        BY <1>3, <2>3, <2>4
      <3>2. spent' \in Nat /\ spent' >= spent
        BY <1>1, <2>2
      <3> QED  BY <1>2, <3>1, <3>2
    <2>5. CASE yes
      <3> DEFINE S == Grants
                 T == Grants'
      <3>1. T \subseteq S \cup {r} /\ S \in SUBSET Requests /\ T \in SUBSET Requests
        BY <1>1, <1>3, <2>3
      <3>2. Cost * Cardinality(S) <= spent /\ spent' = spent + Cost
        BY <2>2, <2>5 DEF GrantsPaid
      <3> HIDE DEF S, T
      <3>3. /\ Cost * Cardinality(S) \in Nat /\ Cost * Cardinality(T) \in Nat
            /\ Cost * Cardinality(T) <= Cost * Cardinality(S) + Cost
        BY <3>1, OneMoreGrant
      <3>4. Cost * Cardinality(T) <= spent'
        BY <1>1, <3>2, <3>3
      <3> QED  BY <3>4 DEF T, GrantsPaid
    <2> QED  BY <2>3, <2>4, <2>5 DEF Follows
  <1>5. ASSUME NEW r \in Requests, ClientStep(r),
               UNCHANGED <<bucket, now, history, restarts>>
        PROVE  GrantsPaid'
    <2>1. PICK d : call' = [call EXCEPT ![r] = d] /\ Follows(d, call[r], now)
      <3>1. Orderly(call[r]) /\ now \in Nat
        BY BucketAssumption DEF Inv, TypeOK
      <3> QED  BY <1>1, <1>5, <3>1, ClientFollows
    <2>2. Grants' \subseteq Grants
      BY <1>3, <2>1 DEF Follows
    <2>3. spent' = spent
      BY <1>5 DEF history
    <2> QED  BY <1>1, <1>2, <2>2, <2>3
  <1>6. CASE UNCHANGED <<call, spent>>
    BY <1>6 DEF GrantsPaid, Grants
  <1> QED
    BY <1>4, <1>5, <1>6 DEF Next, Restart, Tick, vars, history

\* Whatever copies are resent or lost, check_token_bucket lets a request
\* through only if its cost was taken from the bucket, or in FAIL_OPEN mode
\* without Redis.
THEOREM AllowedArePaid == Spec => []Paid
  <1>1. Init => GrantsPaid
    <2> SUFFICES ASSUME Init PROVE GrantsPaid
      OBVIOUS
    <2>1. Grants = {} /\ spent = 0
      BY NewCallOrderly DEF Init, Grants
    <2>2. Cost * Cardinality({}) = 0
      BY FS_EmptySet, BucketAssumption
    <2> QED  BY <2>1, <2>2 DEF GrantsPaid
  <1>2. Inv /\ GrantsPaid => Paid
    <2> SUFFICES ASSUME Inv, GrantsPaid PROVE Paid
      OBVIOUS
    <2> DEFINE S == Grants
               T == {r \in Requests : call[r].allowed /\ ~call[r].degraded}
    <2>1. /\ S \in SUBSET Requests /\ T \in SUBSET Requests /\ T \subseteq S
          /\ T \subseteq S \cup {0}
      BY DEF Grants, Granted
    <2>2. Cost * Cardinality(S) <= spent /\ spent \in Nat
      BY DEF GrantsPaid, Inv, TypeOK
    <2>3. \A r \in Requests : call[r].allowed /\ call[r].degraded => FailOpen
      BY DEF Inv, Orderly
    <2> HIDE DEF S, T
    <2>4. /\ Cost * Cardinality(S) \in Nat /\ Cost * Cardinality(T) \in Nat
          /\ Cost * Cardinality(T) <= Cost * Cardinality(S)
      BY <2>1, OneMoreGrant
    <2>5. Cost * Cardinality(T) <= spent
      BY <2>2, <2>4
    <2> QED  BY <2>3, <2>5 DEF T, Paid
  <1> QED  BY <1>1, <1>2, InitInv, NextInv, NextPaid, PTL DEF Spec

-----------------------------------------------------------------------------
(* retry_after_ms and the Retry-After header.                               *)

\* Integer division.
LEMMA Quotient ==
    ASSUME NEW x \in Nat, NEW d \in Nat \ {0}
    PROVE  /\ x \div d \in Nat /\ d * (x \div d) \in Nat
           /\ d * (x \div d) <= x /\ x < d * (x \div d) + d
  OBVIOUS

\* A product with a larger factor is not smaller.
LEMMA LargerProduct ==
    ASSUME NEW k \in Nat, NEW x \in Nat, NEW y \in Nat, x <= y
    PROVE  k * x \in Nat /\ k * y \in Nat /\ k * x <= k * y
  <1>1. y - x \in Nat /\ k * (y - x) \in Nat /\ k * x \in Nat /\ k * y \in Nat
    BY Products
  <1>2. k * (x + (y - x)) = k * x + k * (y - x) /\ x + (y - x) = y
    <2>1. x \in Int /\ y - x \in Int /\ k \in Int
      OBVIOUS
    <2> QED  BY <2>1, Products
  <1> QED  BY <1>1, <1>2

\* After a refusal with f tokens, the bucket opens when refill reaches cost.
LEMMA Reopens ==
    ASSUME bucket \in Bucket, NEW stamp \in Nat, ~Allows(bucket, stamp),
           Cost <= Capacity, NEW v \in Nat
    PROVE  Allows(Stored(bucket, stamp), stamp + v)
             <=> Refilled(bucket, stamp) + Rate * v >= Cost
  <1> DEFINE f == Refilled(bucket, stamp)
             t == f + Rate * v
             b == Stored(bucket, stamp)
  <1>1. /\ f \in 0 .. Capacity /\ Capacity \in Nat /\ Cost \in Nat /\ Rate \in Nat
    BY BucketAssumption, RefillBounds
  <1>2. b = [exists |-> TRUE, last |-> stamp, idle |-> 0, tokens |-> f]
    BY DEF Stored
  <1> HIDE DEF f
  <1>3. Rate * v \in Nat /\ t \in Nat
    <2>1. Rate * v \in Nat
      BY <1>1, Products
    <2> QED  BY <1>1, <2>1
  <1>4. Elapsed(b, stamp + v) = v /\ b.exists /\ b.tokens = f
    BY <1>2 DEF Elapsed
  <1> HIDE DEF b
  <1>5. Refilled(b, stamp + v) = Min({Capacity, t})
    BY <1>4 DEF Refilled
  <1> HIDE DEF t
  <1>6. /\ Min({Capacity, t}) \in {Capacity, t}
        /\ Min({Capacity, t}) <= Capacity /\ Min({Capacity, t}) <= t
    <2>1. Capacity \in Int /\ t \in Int
      BY <1>1, <1>3
    <2> QED  BY <2>1, MinOfTwo
  <1>7. Allows(b, stamp + v) <=> t >= Cost
    BY <1>1, <1>3, <1>5, <1>6 DEF Allows
  <1> QED  BY <1>7 DEF b, t, f

\* The wait of a refused call: the first tick at which refill reaches cost.
LEMMA WaitFacts ==
    ASSUME bucket \in Bucket, NEW stamp \in Nat, ~Allows(bucket, stamp),
           NEW w, w = RetryAfter(bucket, stamp)
    PROVE  /\ w \in Nat \ {0}
           /\ Refilled(bucket, stamp) + Rate * w >= Cost
           /\ ~(Refilled(bucket, stamp) + Rate * (w - 1) >= Cost)
  <1> DEFINE f == Refilled(bucket, stamp)
             x == Cost - f + Rate - 1
  <1>1. /\ f \in Nat /\ Cost \in Nat /\ Rate \in Nat \ {0} /\ ~(f >= Cost)
    BY BucketAssumption, RefillBounds DEF Allows
  <1>2. w = x \div Rate
    BY DEF RetryAfter
  <1> HIDE DEF f
  <1>3. x \in Nat /\ x >= Rate
    BY <1>1
  <1>4. w \in Nat /\ Rate * w \in Nat /\ Rate * w <= x /\ x < Rate * w + Rate
    <2> HIDE DEF x
    <2> QED  BY <1>1, <1>2, <1>3, Quotient
  <1>5. w # 0
    <2> SUFFICES ASSUME w = 0 PROVE FALSE
      OBVIOUS
    <2>1. Rate * w = 0
      BY <1>1
    <2> QED  BY <1>1, <1>3, <1>4, <2>1
  <1>6. Rate * (w - 1) = Rate * w - Rate
    BY <1>1, <1>4
  <1> QED  BY <1>1, <1>4, <1>5, <1>6 DEF f

\* token_bucket.lua rounds retry_after_ms up to the first moment at which the
\* request would pass, whatever order the readings come in.
THEOREM RetryAfterIsPrecise == Spec => []RetryAfterPrecise
  <1>1. Inv => RetryAfterPrecise
    <2> SUFFICES ASSUME Inv, NEW r \in Requests, Cost <= Capacity,
                        ~Allows(bucket, call[r].stamp)
                 PROVE  OpensAfter(bucket, call[r].stamp,
                                   RetryAfter(bucket, call[r].stamp))
      BY DEF RetryAfterPrecise
    <2> DEFINE s == call[r].stamp
               w == RetryAfter(bucket, s)
    <2>1. bucket \in Bucket /\ s \in Nat
      BY DEF Inv, TypeOK, Call
    <2> HIDE DEF s, w
    <2>2. /\ w \in Nat \ {0}
          /\ Refilled(bucket, s) + Rate * w >= Cost
          /\ ~(Refilled(bucket, s) + Rate * (w - 1) >= Cost)
      BY <2>1, WaitFacts DEF w, s
    <2>3. Allows(Stored(bucket, s), s + w)
      BY <2>1, <2>2, Reopens DEF s
    <2>4. ~Allows(Stored(bucket, s), s + (w - 1))
      <3>1. w - 1 \in Nat
        BY <2>2
      <3> QED  BY <2>1, <2>2, <3>1, Reopens DEF s
    <2>5. s + (w - 1) = s + w - 1
      BY <2>1, <2>2
    <2>6. OpensAfter(bucket, s, w)
      BY <2>3, <2>4, <2>5 DEF OpensAfter
    <2> QED  BY <2>6 DEF s, w
  <1> QED  BY <1>1, InitInv, NextInv, PTL DEF Spec

\* The Retry-After header, rounded down to seconds by the gateway, is less than
\* a second short.
THEOREM HeaderIsWithinSecond == Spec => []HeaderWithinSecond
  <1>1. Inv => HeaderWithinSecond
    <2> SUFFICES ASSUME Inv, NEW r \in Requests, Cost <= Capacity,
                        ~Allows(bucket, call[r].stamp)
                 PROVE  Allows(Stored(bucket, call[r].stamp),
                               call[r].stamp + TicksPerSecond
                                 * (1 + RetryAfterHeader(bucket, call[r].stamp)))
      BY DEF HeaderWithinSecond
    <2> DEFINE s == call[r].stamp
               w == RetryAfter(bucket, s)
               T == TicksPerSecond
               d == w \div T
               h == RetryAfterHeader(bucket, s)
               f == Refilled(bucket, s)
    <2>1. /\ bucket \in Bucket /\ s \in Nat /\ T \in Nat \ {0} /\ Rate \in Nat
          /\ Cost \in Nat /\ f \in Nat
      <3>1. bucket \in Bucket /\ s \in Nat
        BY DEF Inv, TypeOK, Call
      <3> QED  BY <3>1, BucketAssumption, RefillBounds
    <2>2. h = Max({1, d})
      BY DEF RetryAfterHeader
    <2>3. w \in Nat \ {0} /\ f + Rate * w >= Cost
      BY <2>1, WaitFacts
    <2> HIDE DEF s, w, T, h, f
    <2>4. d \in Nat /\ T * d \in Nat /\ w < T * d + T
      BY <2>1, <2>3, Quotient
    <2> HIDE DEF d
    <2>5. h \in Nat /\ d <= h
      <3>1. \E x \in {1, d} : \A y \in {1, d} : x >= y
        <4>1. CASE d <= 1
          BY <2>4, <4>1
        <4>2. CASE d > 1
          BY <2>4, <4>2
        <4> QED  BY <2>4, <4>1, <4>2
      <3>2. h \in {1, d} /\ h >= d
        BY <2>2, <3>1 DEF Max
      <3> QED  BY <2>4, <3>2
    <2> DEFINE v == T * (1 + h)
    <2>6. v \in Nat /\ w <= v
      <3>1. T * d <= T * h /\ T * h \in Nat
        BY <2>1, <2>4, <2>5, LargerProduct
      <3>2. v = T + T * h
        BY <2>1, <2>5
      <3> HIDE DEF v
      <3> QED  BY <2>1, <2>3, <2>4, <3>1, <3>2
    <2> HIDE DEF v
    <2>7. f + Rate * v >= Cost
      <3>1. Rate * w \in Nat /\ Rate * v \in Nat /\ Rate * w <= Rate * v
        BY <2>1, <2>3, <2>6, LargerProduct
      <3> QED  BY <2>1, <2>3, <3>1
    <2>8. Allows(Stored(bucket, s), s + v)
      BY <2>1, <2>6, <2>7, Reopens DEF s, f
    <2> QED  BY <2>8 DEF s, v, T, h
  <1> QED  BY <1>1, InitInv, NextInv, PTL DEF Spec

-----------------------------------------------------------------------------
(* Readings in order, and Redis keeping its data.                           *)

\* With clocks at most k ahead: no reading still to be used is late, and the
\* last script's reading is as old as the key is idle, but for k.
Recent(k) ==
    /\ \A r \in Requests : Timely(call[r], now, k)
    /\ fills > 0 => bucket.last + bucket.idle <= now + k

\* Besides, a key that is gone was idle for Ttl.
Aged(k) ==
    /\ Recent(k)
    /\ fills > 0 /\ restarts = 0 /\ ~bucket.exists => bucket.idle = Ttl
    /\ InOrderBudget

\* While a key is idle long enough to expire, a bucket would have filled up, so
\* starting it full gives nothing away.
LEMMA ScriptInOrder ==
    ASSUME Inv, NEW k \in Nat, Aged(k), MaxDelay + k <= Ttl,
           Capacity <= Rate * (Ttl - MaxDelay - k),
           NEW stamp \in Nat, now <= stamp + MaxDelay, RunScript(stamp),
           restarts' = restarts
    PROVE  InOrderBudget'
  <1> SUFFICES ASSUME fills' > 0, rewound' = 0, restarts = 0
               PROVE  spent' + Available' <= Capacity + Rate * (bucket'.last - start')
    BY DEF InOrderBudget
  <1> DEFINE e == Elapsed(bucket, stamp)
             f == Refilled(bucket, stamp)
             x == bucket.last - start
  <1>1. /\ bucket \in Bucket /\ now \in Nat
        /\ spent \in Nat /\ fills \in Nat /\ start \in Nat /\ rewound \in Nat
        /\ Capacity \in Nat /\ Rate \in Nat /\ Ttl \in Nat /\ MaxDelay \in Nat
    BY BucketAssumption, CallAssumption DEF Inv, TypeOK
  <1>2. bucket.last \in Nat /\ bucket.tokens \in Nat /\ bucket.exists \in BOOLEAN
    BY <1>1 DEF Bucket
  <1>3. /\ e \in Nat
        /\ f \in 0 .. Capacity
        /\ bucket.exists => f <= bucket.tokens + Rate * e
        /\ ~bucket.exists => f = Capacity
    BY <1>1, RefillBounds
  <1>4. /\ bucket'.last = stamp
        /\ spent' + Available' = spent + f
    BY <1>1, ScriptTakes DEF Available
  <1>5. CASE fills = 0
    <2>1. spent = 0 /\ start' = stamp
      BY <1>5 DEF Inv, RunScript
    <2>2. bucket'.last - start' = 0
      BY <1>4, <2>1
    <2>3. Rate * 0 = 0
      BY <1>1, Products
    <2> HIDE DEF f
    <2> QED  BY <1>1, <1>3, <1>4, <2>1, <2>2, <2>3
  <1>6. CASE fills > 0
    <2>1. start' = start /\ rewound = 0 /\ stamp >= bucket.last
      BY <1>1, <1>2, <1>6 DEF RunScript
    <2>2. e = stamp - bucket.last
      BY <1>2, <2>1 DEF Elapsed
    <2>3. x \in Int /\ bucket'.last - start' = x + e
      BY <1>1, <1>2, <1>4, <2>1, <2>2
    <2>4. spent + Available <= Capacity + Rate * x
      BY <1>6, <2>1 DEF Aged, InOrderBudget
    <2>5. ~bucket.exists => Ttl - MaxDelay - k <= e
      BY <1>1, <1>2, <1>6, <2>2 DEF Aged, Recent
    <2> HIDE DEF x, e, f
    <2>6. /\ Rate * (x + e) = Rate * x + Rate * e
          /\ Rate * e \in Nat /\ Rate * x \in Int
      BY <1>1, <1>3, <2>3, Products
    <2>7. CASE bucket.exists
      <3>1. Available = bucket.tokens
        BY <2>7 DEF Available
      <3> QED  BY <1>1, <1>2, <1>3, <1>4, <2>3, <2>4, <2>6, <2>7, <3>1
    <2>8. CASE ~bucket.exists
      <3> DEFINE m == Ttl - MaxDelay - k
      <3>1. m \in Nat /\ m <= e /\ Capacity <= Rate * m
        BY <1>1, <2>5, <2>8
      <3> HIDE DEF m
      <3>2. Rate * m <= Rate * e /\ Rate * m \in Nat
        BY <1>1, <1>3, <3>1, LargerProduct
      <3>3. Available = 0
        BY <2>8 DEF Available
      <3> QED  BY <1>1, <1>3, <1>4, <2>3, <2>4, <2>6, <2>8, <3>1, <3>2, <3>3
    <2> QED  BY <2>7, <2>8
  <1> QED  BY <1>1, <1>5, <1>6

\* A key that is lost takes its tokens with it.
LEMMA QuietInOrder ==
    ASSUME Inv, InOrderBudget, UNCHANGED history, restarts \in Nat,
           restarts' = 0 => restarts = 0,
           bucket'.last = bucket.last, bucket'.tokens = bucket.tokens,
           bucket'.exists => bucket.exists
    PROVE  InOrderBudget'
  <1> SUFFICES ASSUME fills' > 0, rewound' = 0, restarts' = 0
               PROVE  spent' + Available' <= Capacity + Rate * (bucket'.last - start')
    BY DEF InOrderBudget
  <1>1. /\ fills' = fills /\ spent' = spent /\ start' = start
        /\ rewound' = rewound
    BY DEF history
  <1> DEFINE b == Capacity + Rate * (bucket.last - start)
  <1>2. spent + Available <= b
    BY <1>1 DEF InOrderBudget
  <1>3. b \in Int
    <2>1. /\ bucket.last - start \in Int /\ Capacity \in Int /\ Rate \in Int
      BY BucketAssumption DEF Inv, TypeOK, Bucket
    <2>2. Rate * (bucket.last - start) \in Int
      BY <2>1, Products
    <2> QED  BY <2>1, <2>2
  <1>4. b = Capacity + Rate * (bucket'.last - start')
    BY <1>1
  <1> HIDE DEF b
  <1>5. bucket.tokens \in Nat /\ spent \in Nat
    BY DEF Inv, TypeOK, Bucket
  <1>6. Available' \in Nat /\ Available \in Nat /\ Available' <= Available
    BY <1>5 DEF Available
  <1>7. spent + Available' <= b
    <2>1. \A p, q, z \in Int : p + q <= b /\ z <= q => p + z <= b
      BY <1>3
    <2>2. spent \in Int /\ Available \in Int /\ Available' \in Int
      BY <1>5, <1>6
    <2> QED  BY <1>2, <1>6, <2>1, <2>2, Zenon
  <1> QED  BY <1>1, <1>4, <1>7

\* A tick makes the key one tick older, and takes it away at Ttl.
LEMMA TickAges ==
    ASSUME bucket \in Bucket, Tick
    PROVE  /\ bucket.idle \in Nat /\ bucket.last \in Nat
           /\ bucket'.tokens = bucket.tokens /\ bucket'.last = bucket.last
           /\ bucket'.idle \in Nat /\ bucket'.idle <= bucket.idle + 1
           /\ bucket'.exists => bucket.exists
           /\ ~bucket'.exists /\ bucket.exists => bucket'.idle = Ttl
           /\ bucket.idle = Ttl => bucket'.idle = Ttl
  <1>1. bucket' = [bucket EXCEPT !.idle = IF @ < Ttl THEN @ + 1 ELSE @,
                                 !.exists = @ /\ bucket.idle + 1 < Ttl]
    BY DEF Tick
  <1> DEFINE x == bucket.exists /\ bucket.idle + 1 < Ttl
             i == IF bucket.idle < Ttl THEN bucket.idle + 1 ELSE bucket.idle
  <1>2. bucket' = [exists |-> x, tokens |-> bucket.tokens,
                   last |-> bucket.last, idle |-> i]
    BY <1>1 DEF Bucket
  <1>3. /\ bucket.idle \in 0 .. Ttl /\ bucket.last \in Nat
        /\ bucket.exists \in BOOLEAN /\ Ttl \in Nat \ {0}
    BY BucketAssumption DEF Bucket
  <1>4. /\ i \in Nat /\ i <= bucket.idle + 1
        /\ x => bucket.exists
        /\ ~x /\ bucket.exists => i = Ttl
        /\ bucket.idle = Ttl => i = Ttl
    BY <1>3
  <1> HIDE DEF x, i
  <1>5. /\ bucket'.exists = x /\ bucket'.tokens = bucket.tokens
        /\ bucket'.last = bucket.last /\ bucket'.idle = i
    BY <1>2
  <1> QED  BY <1>3, <1>4, <1>5

\* A script runs with the reading of a call that still had a copy to run.
LEMMA ScriptReading ==
    ASSUME Inv, NEW k \in Nat, Recent(k), NEW r \in Requests,
           Execute(r) \/ ExecuteOrphan(r)
    PROVE  /\ RunScript(call[r].stamp) /\ now' = now /\ restarts' = restarts
           /\ call[r].stamp \in Nat
           /\ call[r].stamp <= now + k /\ now <= call[r].stamp + MaxDelay
  <1>1. call[r] \in Call /\ Orderly(call[r]) /\ Timely(call[r], now, k)
    BY DEF Inv, TypeOK, Recent
  <1>2. RunScript(call[r].stamp) /\ now' = now /\ restarts' = restarts
    BY DEF Execute, ExecuteOrphan
  <1>3. Pending(call[r])
    BY <1>1 DEF Execute, ExecuteOrphan, Executed, OrphanGone, Pending, Orderly
  <1> QED  BY <1>1, <1>2, <1>3 DEF Timely, Call

\* Every step keeps the readings recent.
LEMMA NextRecent ==
    ASSUME NEW k \in Nat, \A skew \in Skews : skew <= k
    PROVE  Inv /\ Recent(k) /\ [Next]_vars => Recent(k)'
  <1> SUFFICES ASSUME Inv, Recent(k), [Next]_vars PROVE Recent(k)'
    OBVIOUS
  <1>1. /\ call \in [Requests -> Call] /\ now \in Nat
        /\ bucket \in Bucket /\ fills \in Nat /\ spent \in Nat
        /\ Ttl \in Nat \ {0} /\ MaxDelay \in Nat
        /\ \A r \in Requests : Orderly(call[r]) /\ Timely(call[r], now, k)
    BY BucketAssumption, CallAssumption DEF Inv, TypeOK, Recent
  <1>2. ASSUME NEW r \in Requests, NEW d, call' = [call EXCEPT ![r] = d],
               Timely(d, now, k), now' = now
        PROVE  (\A q \in Requests : Timely(call[q], now, k))'
    <2>1. \A q \in Requests : call'[q] = IF q = r THEN d ELSE call[q]
      BY <1>1, <1>2
    <2> QED  BY <1>1, <1>2, <2>1
  <1>3. ASSUME NEW r \in Requests, Execute(r) \/ ExecuteOrphan(r)
        PROVE  Recent(k)'
    <2> DEFINE s == call[r].stamp
               yes == Allows(bucket, s)
    <2>1. yes \in BOOLEAN /\ (ClientStep(r) \/ Executed(r, yes))
      BY <1>3 DEF Execute, ExecuteOrphan, ClientStep, Allows
    <2>2. /\ RunScript(s) /\ now' = now
          /\ s \in Nat /\ s <= now + k /\ now <= s + MaxDelay
      BY <1>3, ScriptReading
    <2>3. PICK d : /\ call' = [call EXCEPT ![r] = d]
                   /\ Orderly(d)
                   /\ \/ Follows(d, call[r], now)
                      \/ /\ Executed(r, yes)
                         /\ d.stage = "waiting" /\ d.stamp = s
                         /\ Granted(d) => yes
      <3> HIDE DEF yes
      <3> QED  BY <2>1, CallStep
    <2> HIDE DEF yes
    <2>4. Timely(d, now, k)
      <3>1. CASE Follows(d, call[r], now)
        BY <1>1, <3>1, FollowsTimely
      <3>2. CASE d.stamp = s
        BY <2>2, <3>2 DEF Timely
      <3> QED  BY <2>3, <3>1, <3>2
    <2>5. (\A q \in Requests : Timely(call[q], now, k))'
      BY <1>2, <2>2, <2>3, <2>4, Zenon
    <2>6. bucket'.last = s /\ bucket'.idle = 0
      BY <1>1, <2>2, ScriptTakes
    <2> HIDE DEF s
    <2>7. bucket'.last + bucket'.idle <= now' + k
      BY <1>1, <2>2, <2>6
    <2> QED  BY <2>5, <2>7 DEF Recent
  <1>4. ASSUME NEW r \in Requests, ClientStep(r),
               UNCHANGED <<bucket, now, history, restarts>>
        PROVE  Recent(k)'
    <2>1. PICK d : Follows(d, call[r], now) /\ call' = [call EXCEPT ![r] = d]
      BY <1>1, <1>4, ClientFollows
    <2>2. Timely(d, now, k)
      BY <1>1, <2>1, FollowsTimely
    <2>3. (\A q \in Requests : Timely(call[q], now, k))'
      BY <1>2, <1>4, <2>1, <2>2, Zenon
    <2> QED  BY <1>4, <2>3 DEF Recent, history
  <1>5. CASE Restart
    <2>1. /\ UNCHANGED <<call, now, history>>
          /\ bucket' = [bucket EXCEPT !.exists = FALSE]
      BY <1>5 DEF Restart
    <2>2. bucket'.last = bucket.last /\ bucket'.idle = bucket.idle
      BY <1>1, <2>1 DEF Bucket
    <2> QED  BY <2>1, <2>2 DEF Recent, history
  <1>6. CASE Tick
    <2>1. UNCHANGED <<call, history>> /\ now' = now + 1 /\ NobodyOverdue
      BY <1>6 DEF Tick
    <2>2. /\ bucket.idle \in Nat /\ bucket.last \in Nat
          /\ bucket'.last = bucket.last /\ bucket'.idle \in Nat
          /\ bucket'.idle <= bucket.idle + 1
      BY <1>1, <1>6, TickAges
    <2>3. (\A q \in Requests : Timely(call[q], now, k))'
      BY <1>1, <2>1, TickTimely
    <2>4. fills' > 0 => bucket'.last + bucket'.idle <= now' + k
      <3>1. fills > 0 => bucket.last + bucket.idle <= now + k
        BY DEF Recent
      <3> QED  BY <1>1, <2>1, <2>2, <3>1 DEF history
    <2> QED  BY <2>3, <2>4 DEF Recent
  <1>7. CASE UNCHANGED vars
    BY <1>7 DEF vars, history, Recent
  <1> QED  BY <1>3, <1>4, <1>5, <1>6, <1>7 DEF Next

\* Every step keeps a key as old as it should be.
LEMMA NextAged ==
    ASSUME NEW k \in Nat, \A skew \in Skews : skew <= k, MaxDelay + k <= Ttl,
           Capacity <= Rate * (Ttl - MaxDelay - k)
    PROVE  Inv /\ Aged(k) /\ [Next]_vars => Aged(k)'
  <1> SUFFICES ASSUME Inv, Aged(k), [Next]_vars PROVE Aged(k)'
    OBVIOUS
  <1>1. /\ restarts \in Nat /\ bucket \in Bucket /\ spent \in Nat
        /\ Recent(k) /\ InOrderBudget
    BY BucketAssumption DEF Inv, TypeOK, Aged
  <1>2. Recent(k)'
    BY <1>1, NextRecent
  <1>3. ASSUME NEW r \in Requests, Execute(r) \/ ExecuteOrphan(r)
        PROVE  Aged(k)'
    <2> DEFINE s == call[r].stamp
    <2>1. /\ RunScript(s) /\ restarts' = restarts
          /\ s \in Nat /\ now <= s + MaxDelay
      BY <1>1, <1>3, ScriptReading
    <2> HIDE DEF s
    <2>2. bucket'.exists
      BY <1>1, <2>1, ScriptTakes
    <2>3. InOrderBudget'
      BY <2>1, ScriptInOrder
    <2> QED  BY <1>2, <2>2, <2>3 DEF Aged
  <1>4. ASSUME NEW r \in Requests, UNCHANGED <<bucket, now, history, restarts>>
        PROVE  Aged(k)'
    <2>1. InOrderBudget'
      BY <1>1, <1>4, QuietInOrder
    <2> QED  BY <1>2, <1>4, <2>1 DEF Aged, history
  <1>5. CASE Restart
    <2>1. /\ UNCHANGED history /\ restarts' = restarts + 1
          /\ bucket' = [bucket EXCEPT !.exists = FALSE]
      BY <1>5 DEF Restart
    <2>2. /\ bucket'.last = bucket.last /\ bucket'.tokens = bucket.tokens
          /\ ~bucket'.exists /\ restarts' # 0
      BY <1>1, <2>1 DEF Bucket
    <2>3. InOrderBudget'
      BY <1>1, <2>1, <2>2, QuietInOrder
    <2> QED  BY <1>2, <2>2, <2>3 DEF Aged
  <1>6. CASE Tick
    <2>1. UNCHANGED <<call, history, restarts>>
      BY <1>6 DEF Tick
    <2>2. /\ bucket'.tokens = bucket.tokens /\ bucket'.last = bucket.last
          /\ bucket'.exists => bucket.exists
          /\ ~bucket'.exists /\ bucket.exists => bucket'.idle = Ttl
          /\ bucket.idle = Ttl => bucket'.idle = Ttl
      BY <1>1, <1>6, TickAges
    <2>3. fills' > 0 /\ restarts' = 0 /\ ~bucket'.exists => bucket'.idle = Ttl
      BY <2>1, <2>2 DEF Aged, history
    <2>4. InOrderBudget'
      BY <1>1, <2>1, <2>2, QuietInOrder
    <2> QED  BY <1>2, <2>3, <2>4 DEF Aged
  <1>7. CASE UNCHANGED vars
    BY <1>2, <1>7 DEF vars, history, Aged, InOrderBudget, Available
  <1> QED  BY <1>3, <1>4, <1>5, <1>6, <1>7 DEF Next

\* With clocks at most k apart, in-order readings and no restart, expiry gives
\* nothing away when the key's time to live, less k and the longest delay, is
\* enough to fill an empty bucket: all token_bucket.lua hands out is one
\* Capacity and the refill.
THEOREM ExpiryGivesNothingAway ==
    ASSUME NEW k \in Nat, \A skew \in Skews : skew <= k, MaxDelay + k <= Ttl,
           Capacity <= Rate * (Ttl - MaxDelay - k)
    PROVE  Spec => []InOrderBudget
  <1>1. Init => Aged(k)
    BY NewCallOrderly DEF Init, Aged, Recent, InOrderBudget
  <1>2. Inv /\ Aged(k) /\ [Next]_vars => Aged(k)'
    BY NextAged
  <1>3. Aged(k) => InOrderBudget
    BY DEF Aged
  <1> QED  BY <1>1, <1>2, <1>3, InitInv, NextInv, PTL DEF Spec

-----------------------------------------------------------------------------
(* What the documented contract amounts to by the clock of the gateways.    *)

\* No script moves last_refill_ms back by more than the longest delay of a
\* command and the distance of the clocks: what one late reading can have
\* refilled twice is bounded.
THEOREM RewindsBounded ==
    ASSUME NEW k \in Nat, \A skew \in Skews : skew <= k
    PROVE  Spec => [][rewound' <= rewound + MaxDelay + k]_vars
  <1>1. Init => Recent(k)
    BY NewCallOrderly DEF Init, Recent
  <1>2. Inv /\ Recent(k) /\ [Next]_vars => Recent(k)'
    BY NextRecent
  <1>3. Inv /\ Recent(k) /\ [Next]_vars
          => [rewound' <= rewound + MaxDelay + k]_vars
    <2> SUFFICES ASSUME Inv, Recent(k), Next
                 PROVE  rewound' <= rewound + MaxDelay + k
      OBVIOUS
    <2>1. rewound \in Nat /\ MaxDelay \in Nat /\ now \in Nat /\ bucket \in Bucket
      BY BucketAssumption, CallAssumption DEF Inv, TypeOK
    <2>2. CASE UNCHANGED history
      BY <2>1, <2>2 DEF history
    <2>3. ASSUME NEW r \in Requests, Execute(r) \/ ExecuteOrphan(r)
          PROVE  rewound' <= rewound + MaxDelay + k
      <3> DEFINE s == call[r].stamp
      <3>1. RunScript(s) /\ s \in Nat /\ now <= s + MaxDelay
        BY <2>3, ScriptReading
      <3> HIDE DEF s
      <3>2. bucket.last \in Nat /\ bucket.idle \in Nat
        BY <2>1, BucketAssumption DEF Bucket
      <3>3. fills > 0 => bucket.last <= now + k
        BY <2>1, <3>2 DEF Recent
      <3>4. rewound' = IF fills > 0 /\ s < bucket.last
                       THEN rewound + (bucket.last - s) ELSE rewound
        BY <3>1 DEF RunScript
      <3> QED  BY <2>1, <3>1, <3>2, <3>3, <3>4
    <2> QED  BY <2>2, <2>3 DEF Next, Restart, Tick
  <1> QED  BY <1>1, <1>2, <1>3, InitInv, NextInv, PTL DEF Spec

\* A budget of n bursts and the refill of d ticks past the last reading.
LEMMA LaterBudget ==
    ASSUME NEW sum \in Int, NEW left \in Nat, NEW base \in Int, NEW x \in Int,
           NEW y \in Int, x <= y, sum + left <= base + Rate * x
    PROVE  sum <= base + Rate * y
  <1>1. Rate \in Nat /\ y - x \in Nat /\ y - x \in Int /\ x + (y - x) = y
    BY BucketAssumption
  <1>2. /\ Rate * (x + (y - x)) = Rate * x + Rate * (y - x)
        /\ Rate * (y - x) \in Nat /\ Rate * x \in Int
    BY <1>1, Products
  <1>3. Rate * y = Rate * x + Rate * (y - x)
    BY <1>1, <1>2
  <1> DEFINE p == Rate * x
             q == Rate * (y - x)
  <1>4. p \in Int /\ q \in Nat /\ Rate * y = p + q /\ sum + left <= base + p
    BY <1>2, <1>3
  <1> HIDE DEF p, q
  <1> QED  BY <1>4

\* By the wall clock, with clocks at most k ahead: a Capacity for every time
\* the bucket was started full, and Rate for every tick since it began, for the
\* k ticks and for every tick taken back.
THEOREM SpendingBounded ==
    ASSUME NEW k \in Nat, \A skew \in Skews : skew <= k
    PROVE  Spec => [](fills > 0 => spent <= Capacity * fills
                                     + Rate * (now + k - start + rewound))
  <1>1. Init => Recent(k)
    BY NewCallOrderly DEF Init, Recent
  <1>2. Inv /\ Recent(k) /\ [Next]_vars => Recent(k)'
    BY NextRecent
  <1>3. Inv /\ Recent(k)
          => (fills > 0 => spent <= Capacity * fills
                                      + Rate * (now + k - start + rewound))
    <2> SUFFICES ASSUME Inv, Recent(k), fills > 0
                 PROVE  spent <= Capacity * fills + Rate * (now + k - start + rewound)
      OBVIOUS
    <2> DEFINE x == bucket.last - start + rewound
               y == now + k - start + rewound
               b == Capacity * fills
    <2>1. /\ spent \in Int /\ Available \in Nat /\ Capacity \in Nat /\ fills \in Nat
          /\ x \in Int /\ y \in Int /\ x <= y
      BY BucketAssumption DEF Inv, TypeOK, Bucket, Recent, Available
    <2>2. b \in Int
      BY <2>1, Products
    <2>3. spent + Available <= b + Rate * x
      BY DEF Inv, Budget
    <2> HIDE DEF x, y, b
    <2>4. spent <= b + Rate * y
      BY <2>1, <2>2, <2>3, LaterBudget, Zenon
    <2> QED  BY <2>4 DEF b, y
  <1> QED  BY <1>1, <1>2, <1>3, InitInv, NextInv, PTL DEF Spec

\* The documented contract itself, bursts up to capacity and then refill_rate:
\* it holds of gateways on one clock as long as no script ran with a reading
\* older than the one before it and Redis kept the key, if the key lives long
\* enough for an empty bucket to fill.
THEOREM BurstThenRateInOrder ==
    ASSUME Skews = {0}, MaxDelay <= Ttl, Capacity <= Rate * (Ttl - MaxDelay)
    PROVE  Spec => [](rewound = 0 /\ restarts = 0 => BurstThenRate)
  <1>1. /\ \A skew \in Skews : skew <= 0
        /\ MaxDelay + 0 <= Ttl /\ Ttl - MaxDelay - 0 = Ttl - MaxDelay
    BY BucketAssumption, CallAssumption
  <1>2. Init => Aged(0)
    BY NewCallOrderly, <1>1 DEF Init, Aged, Recent, InOrderBudget
  <1>3. Inv /\ Aged(0) /\ [Next]_vars => Aged(0)'
    BY <1>1, NextAged
  <1>4. Inv /\ Aged(0) => (rewound = 0 /\ restarts = 0 => BurstThenRate)
    <2> SUFFICES ASSUME Inv, Aged(0), rewound = 0, restarts = 0, fills > 0
                 PROVE  spent <= Capacity + Rate * (now - earliest)
      BY DEF BurstThenRate
    <2> DEFINE x == bucket.last - start
               y == now - earliest
    <2>1. /\ spent \in Int /\ Available \in Nat /\ Capacity \in Int
          /\ x \in Int /\ y \in Int /\ x <= y
      BY BucketAssumption DEF Inv, TypeOK, Bucket, Aged, Recent, Available
    <2>2. spent + Available <= Capacity + Rate * x
      BY DEF Aged, InOrderBudget
    <2> HIDE DEF x, y
    <2>3. spent <= Capacity + Rate * y
      BY <2>1, <2>2, LaterBudget, Zenon
    <2> QED  BY <2>3 DEF y
  <1> QED  BY <1>2, <1>3, <1>4, InitInv, NextInv, PTL DEF Spec
=============================================================================
