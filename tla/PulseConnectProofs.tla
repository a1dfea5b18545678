------------------------- MODULE PulseConnectProofs -------------------------
(***************************************************************************)
(* Proofs about PulseConnect, for every list of options, every number of   *)
(* connections and messages, and every set of peers.                       *)
(*                                                                         *)
(* The options are applied one after the other, so what the configuration  *)
(* holds at the end is shown by induction on their number.  The induction  *)
(* is by least counterexample: the set of the numbers for which a claim    *)
(* fails has no least element, so it is empty.                             *)
(***************************************************************************)
EXTENDS PulseConnect, WellFoundedInduction, TLAPS

-----------------------------------------------------------------------------
LEMMA LeastElement ==
  ASSUME NEW T \in SUBSET Nat, T # {}
  PROVE  \E x \in T : \A y \in T : x <= y
<1> DEFINE R == OpToRel(<, Nat)
<1>1. IsWellFoundedOn(R, Nat)
  BY NatLessThanWellFounded
<1>2. \A x, y \in Nat : y < x => <<y, x>> \in R
  BY DEF OpToRel
<1> HIDE DEF R
<1>3. PICK x \in T : \A y \in T : ~ (<<y, x>> \in R)
  BY <1>1, WFMin
<1>4. \A y \in T : ~ (y < x)
  BY <1>2, <1>3
<1>5. \A y \in T : x <= y
  BY <1>4
<1> QED
  BY <1>5

\* A set that holds 0, and with a number below n the next, holds all up to n.
LEMMA Induction ==
  ASSUME NEW n \in Nat, NEW S, 0 \in S, \A i \in 1 .. n : i - 1 \in S => i \in S
  PROVE  \A i \in 0 .. n : i \in S
<1> DEFINE T == {i \in 0 .. n : i \notin S}
<1> SUFFICES ASSUME T # {} PROVE FALSE
  OBVIOUS
<1>1. T \in SUBSET Nat
  OBVIOUS
<1>2. PICK m \in T : \A k \in T : m <= k
  BY <1>1, LeastElement
<1>3. m \in 1 .. n /\ m - 1 \in 0 .. n
  BY <1>2
<1>4. m - 1 \in S
  BY <1>2, <1>3
<1> QED
  BY <1>3, <1>4

\* configs(opts) is what its recursive definition says.
LEMMA ConfigsDefined ==
  ASSUME NEW opts, Len(opts) \in Nat
  PROVE  configs(opts) =
           [i \in 0 .. Len(opts) |->
              IF i = 0 THEN defaultClientConfig ELSE apply(configs(opts)[i - 1], opts[i])]
<1> DEFINE n == Len(opts)
           IsUpTo(m, g) == g = [i \in 0 .. m |-> IF i = 0 THEN defaultClientConfig
                                                ELSE apply(g[i - 1], opts[i])]
           S == {m \in 0 .. n : \E g : IsUpTo(m, g)}
<1>1. 0 \in S
  <2>1. IsUpTo(0, [i \in 0 .. 0 |-> defaultClientConfig])
    OBVIOUS
  <2> HIDE DEF IsUpTo
  <2> QED
    BY <2>1
<1>2. ASSUME NEW m \in 1 .. n, m - 1 \in S
      PROVE  m \in S
  <2>1. PICK g : IsUpTo(m - 1, g)
    BY <1>2
  <2> DEFINE h == [i \in 0 .. m |-> IF i = m THEN apply(g[m - 1], opts[m]) ELSE g[i]]
  <2>2. \A i \in 0 .. m : h[i] = IF i = 0 THEN defaultClientConfig
                                ELSE apply(h[i - 1], opts[i])
    <3> SUFFICES ASSUME NEW i \in 0 .. m
                 PROVE  h[i] = IF i = 0 THEN defaultClientConfig
                               ELSE apply(h[i - 1], opts[i])
      OBVIOUS
    <3>1. CASE i = m
      BY <3>1
    <3>2. CASE i # m
      <4>1. i \in 0 .. m - 1 /\ h[i] = g[i]
        BY <3>2
      <4>2. i # 0 => h[i - 1] = g[i - 1]
        BY <3>2
      <4>3. g[i] = IF i = 0 THEN defaultClientConfig ELSE apply(g[i - 1], opts[i])
        BY <2>1, <4>1
      <4> QED
        BY <4>1, <4>2, <4>3
    <3> QED
      BY <3>1, <3>2
  <2>3. IsUpTo(m, h)
    BY <2>2
  <2> HIDE DEF IsUpTo, h
  <2> QED
    BY <2>3
<1>3. n \in S
  <2> HIDE DEF S, n
  <2>1. n \in Nat
    BY DEF n
  <2>2. \A i \in 1 .. n : i - 1 \in S => i \in S
    BY <1>2
  <2>3. \A i \in 0 .. n : i \in S
    BY <1>1, <2>1, <2>2, Induction
  <2> QED
    BY <2>1, <2>3
<1>4. \E g : IsUpTo(n, g)
  BY <1>3
<1>5. configs(opts) = CHOOSE g : IsUpTo(n, g)
  BY DEF configs
<1> HIDE DEF IsUpTo
<1>6. IsUpTo(n, configs(opts))
  BY <1>4, <1>5
<1> QED
  BY <1>6 DEF IsUpTo

-----------------------------------------------------------------------------
Fields == {"token", "rootCAs", "serverName", "pin", "insecure",
           "ackTimeout", "preambleTimeout", "sigQueueCapacity"}

\* What an option sets its field to.
Applied(o) ==
  CASE o.kind = "rootCAs" -> Deref(o.value, pool)
    [] o.kind = "pin"     -> Deref(o.value, pin)
    [] OTHER -> o.value

LEMMA AppliedByKind ==
  ASSUME NEW o
  PROVE  /\ o.kind = "rootCAs" => Applied(o) = Deref(o.value, pool)
         /\ o.kind = "pin" => Applied(o) = Deref(o.value, pin)
         /\ o.kind \notin {"rootCAs", "pin"} => Applied(o) = o.value
<1>1. CASE o.kind = "rootCAs"
  BY <1>1, Zenon DEF Applied
<1>2. CASE o.kind = "pin"
  BY <1>2, Zenon DEF Applied
<1>3. CASE o.kind # "rootCAs" /\ o.kind # "pin"
  BY <1>3, Zenon DEF Applied
<1> QED
  BY <1>1, <1>2, <1>3

LEMMA AcceptsByKind ==
  ASSUME NEW o, Accepts(o)
  PROVE  /\ o.kind = "pin" \/ Valid(o)
         /\ o.kind # "nil"
         /\ o.kind = "rootCAs" => o.value # None
         /\ o.kind = "serverName" => o.value # ""
         /\ o.kind = "pin" => Deref(o.value, pin) \in Digests
         /\ o.kind \in Numbers => o.value > 0
<1>1. /\ o.kind # "nil"
      /\ o.kind = "rootCAs" => o.value # None
      /\ o.kind = "serverName" => o.value # ""
      /\ o.kind = "pin" => Deref(o.value, pin) \in Digests
      /\ o.kind \in Numbers => o.value > 0
  <2>1. CASE o.kind = "nil"
    BY <2>1 DEF Accepts, Numbers
  <2>2. CASE o.kind = "rootCAs"
    BY <2>2 DEF Accepts, Numbers
  <2>3. CASE o.kind = "serverName"
    BY <2>3 DEF Accepts, Numbers
  <2>4. CASE o.kind = "pin"
    BY <2>4 DEF Accepts, Numbers
  <2>5. CASE o.kind \in Numbers
    BY <2>5 DEF Accepts, Numbers
  <2> QED
    BY <2>1, <2>2, <2>3, <2>4, <2>5
<1> QED
  BY <1>1 DEF Valid

\* Option i is the last up to option n that sets kind.
IsLast(opts, kind, n, i) ==
  /\ i \in 1 .. n
  /\ opts[i].kind = kind
  /\ \A j \in i + 1 .. n : opts[j].kind # kind

LEMMA Defaults ==
  /\ DOMAIN defaultClientConfig = Fields
  /\ defaultClientConfig["token"] = "" /\ defaultClientConfig["rootCAs"] = None
  /\ defaultClientConfig["serverName"] = "" /\ defaultClientConfig["pin"] = None
  /\ defaultClientConfig["insecure"] = FALSE
  /\ \A n \in Numbers : n \in Fields /\ defaultClientConfig[n] \in Nat \ {0}
BY DEF defaultClientConfig, Fields, Numbers

LEMMA ApplySets ==
  ASSUME NEW c, NEW o, DOMAIN c = Fields
  PROVE  /\ DOMAIN apply(c, o) = Fields
         /\ \A k \in Fields : apply(c, o)[k] = IF o.kind = k THEN Applied(o) ELSE c[k]
BY DEF apply, Applied

\* A field holds what the last option of its kind set, or its default.
LEMMA LastOptionWins ==
  ASSUME NEW opts, Len(opts) \in Nat
  PROVE  \A n \in 0 .. Len(opts) :
           /\ DOMAIN configs(opts)[n] = Fields
           /\ \A k \in Fields :
                /\ (\A j \in 1 .. n : opts[j].kind # k)
                     => configs(opts)[n][k] = defaultClientConfig[k]
                /\ \A i : IsLast(opts, k, n, i) => configs(opts)[n][k] = Applied(opts[i])
<1> DEFINE c == configs(opts)
           Holds(n) ==
             /\ DOMAIN c[n] = Fields
             /\ \A k \in Fields :
                  /\ (\A j \in 1 .. n : opts[j].kind # k) => c[n][k] = defaultClientConfig[k]
                  /\ \A i : IsLast(opts, k, n, i) => c[n][k] = Applied(opts[i])
           S == {n \in 0 .. Len(opts) : Holds(n)}
<1>1. /\ c[0] = defaultClientConfig
      /\ \A n \in 1 .. Len(opts) : c[n] = apply(c[n - 1], opts[n])
  BY ConfigsDefined
<1> HIDE DEF c
<1>2. 0 \in S
  <2>1. \A k, i : ~ IsLast(opts, k, 0, i)
    BY DEF IsLast
  <2>2. Holds(0)
    BY <1>1, <2>1, Defaults
  <2> QED
    BY <2>2
<1>3. ASSUME NEW n \in 1 .. Len(opts), n - 1 \in S
      PROVE  n \in S
  <2>1. /\ DOMAIN c[n] = Fields
        /\ \A k \in Fields :
             c[n][k] = IF opts[n].kind = k THEN Applied(opts[n]) ELSE c[n - 1][k]
    BY <1>1, <1>3, ApplySets
  <2>2. ASSUME NEW k \in Fields, \A j \in 1 .. n : opts[j].kind # k
        PROVE  c[n][k] = defaultClientConfig[k]
    BY <1>3, <2>1, <2>2
  <2>3. ASSUME NEW k \in Fields, NEW i, IsLast(opts, k, n, i)
        PROVE  c[n][k] = Applied(opts[i])
    <3>1. CASE i = n
      BY <2>1, <2>3, <3>1 DEF IsLast
    <3>2. CASE i # n
      <4>1. opts[n].kind # k /\ IsLast(opts, k, n - 1, i)
        BY <2>3, <3>2 DEF IsLast
      <4> QED
        BY <1>3, <2>1, <4>1
    <3> QED
      BY <3>1, <3>2
  <2> QED
    BY <2>1, <2>2, <2>3
<1>4. \A n \in 0 .. Len(opts) : n \in S
  <2> HIDE DEF S
  <2>1. \A i \in 1 .. Len(opts) : i - 1 \in S => i \in S
    BY <1>3
  <2> QED
    BY <1>2, <2>1, Induction
<1> QED
  BY <1>4 DEF c

\* The options of a call that set kind are none, or have a last one.
LEMMA LastExists ==
  ASSUME NEW opts, NEW n \in Nat, NEW kind, NEW m \in 1 .. n, opts[m].kind = kind
  PROVE  \E i : IsLast(opts, kind, n, i)
<1> DEFINE T == {n - i : i \in {j \in 1 .. n : opts[j].kind = kind}}
<1>1. T \in SUBSET Nat /\ T # {}
  OBVIOUS
<1>2. PICK x \in T : \A y \in T : x <= y
  BY <1>1, LeastElement
<1>3. PICK i \in 1 .. n : opts[i].kind = kind /\ x = n - i
  BY <1>2
<1>4. ASSUME NEW j \in i + 1 .. n, opts[j].kind = kind
      PROVE  FALSE
  <2>1. j \in 1 .. n /\ n - j \in T
    BY <1>4
  <2> HIDE DEF T
  <2>2. n - i <= n - j
    BY <1>2, <1>3, <2>1
  <2>3. j > i
    BY <1>4
  <2> QED
    BY <2>1, <2>2, <2>3
<1> QED
  BY <1>3, <1>4 DEF IsLast

LEMMA LastIsMax ==
  ASSUME NEW opts, NEW n \in Nat, NEW kind, NEW i, IsLast(opts, kind, n, i)
  PROVE  Max({j \in 1 .. n : opts[j].kind = kind}) = i
<1> DEFINE T == {j \in 1 .. n : opts[j].kind = kind}
<1>1. i \in T /\ \A y \in T : i >= y
  BY DEF IsLast
<1>2. \A x \in T : (\A y \in T : x >= y) => x = i
  BY <1>1
<1> HIDE DEF T
<1>3. Max(T) = i
  BY <1>1, <1>2 DEF Max
<1> QED
  BY <1>3 DEF T

-----------------------------------------------------------------------------
\* The options that set kind, as Given names them, and the last one's value.
Of(opts, kind) == {i \in DOMAIN opts : opts[i].kind = kind}
LastOf(opts, kind) == opts[Max(Of(opts, kind))].value

\* Options as With* makes them.
Made(opts) ==
  /\ Len(opts) \in Nat /\ DOMAIN opts = 1 .. Len(opts)
  /\ \A i \in DOMAIN opts :
       /\ opts[i].kind = "insecure" => opts[i].value = TRUE
       /\ opts[i].kind = "rootCAs" => opts[i].value \in {None, Shared}
       /\ opts[i].kind = "pin" => opts[i].value \in Pins

LEMMA FieldValue ==
  ASSUME NEW opts, Made(opts), NEW k \in Fields
  PROVE  /\ DOMAIN configs(opts)[Len(opts)] = Fields
         /\ Of(opts, k) = {} => configs(opts)[Len(opts)][k] = defaultClientConfig[k]
         /\ Of(opts, k) # {} =>
              /\ Max(Of(opts, k)) \in Of(opts, k)
              /\ configs(opts)[Len(opts)][k] = Applied(opts[Max(Of(opts, k))])
<1> DEFINE n == Len(opts)
<1>1. n \in Nat /\ DOMAIN opts = 1 .. n /\ n \in 0 .. n
  BY DEF Made
<1>2. /\ DOMAIN configs(opts)[n] = Fields
      /\ (\A j \in 1 .. n : opts[j].kind # k) => configs(opts)[n][k] = defaultClientConfig[k]
      /\ \A i : IsLast(opts, k, n, i) => configs(opts)[n][k] = Applied(opts[i])
  BY <1>1, LastOptionWins
<1>3. Of(opts, k) = {} => \A j \in 1 .. n : opts[j].kind # k
  BY <1>1 DEF Of
<1>4. ASSUME Of(opts, k) # {}
      PROVE  /\ Max(Of(opts, k)) \in Of(opts, k)
             /\ configs(opts)[n][k] = Applied(opts[Max(Of(opts, k))])
  <2>1. PICK m \in 1 .. n : opts[m].kind = k
    BY <1>1, <1>4 DEF Of
  <2> HIDE DEF n
  <2>2. PICK i : IsLast(opts, k, n, i)
    BY <1>1, <2>1, LastExists
  <2>3. Max({j \in 1 .. n : opts[j].kind = k}) = i
    BY <1>1, <2>2, LastIsMax
  <2>4. Of(opts, k) = {j \in 1 .. n : opts[j].kind = k}
    BY <1>1 DEF Of
  <2>5. i \in Of(opts, k)
    BY <2>2, <2>4 DEF IsLast
  <2> QED
    BY <1>2, <2>2, <2>3, <2>4, <2>5
<1> QED
  BY <1>2, <1>3, <1>4

\* Options that are not refused: none of them is one that its own check refuses,
\* no two conflict, and the configuration is what the last of each kind says.
LEMMA OptionsValidated ==
  ASSUME NEW opts, Made(opts), pool \in Pools, applyOptions(opts) # Failed
  PROVE  /\ \A i \in DOMAIN opts : Valid(opts[i])
         /\ Of(opts, "insecure") # {} => Of(opts, "rootCAs") = {} /\ Of(opts, "pin") = {}
         /\ Of(opts, "pin") # {} => LastOf(opts, "pin") \in Digests
         /\ \A k \in Numbers : applyOptions(opts)[k] > 0
         /\ applyOptions(opts).token =
              IF Of(opts, "token") = {} THEN "" ELSE LastOf(opts, "token")
         /\ applyOptions(opts).insecure = (Of(opts, "insecure") # {})
         /\ applyOptions(opts).rootCAs = IF Of(opts, "rootCAs") = {} THEN None ELSE pool
         /\ applyOptions(opts).serverName =
              IF Of(opts, "serverName") = {} THEN "" ELSE LastOf(opts, "serverName")
         /\ Of(opts, "serverName") # {} => LastOf(opts, "serverName") # ""
         /\ applyOptions(opts).pin =
              IF Of(opts, "pin") = {} THEN None ELSE LastOf(opts, "pin")
<1> DEFINE c == configs(opts)[Len(opts)]
<1>1. /\ \A i \in DOMAIN opts : Accepts(opts[i])
      /\ ~ (c.insecure /\ (c.rootCAs # None \/ c.pin # None))
      /\ applyOptions(opts) = c
  BY DEF applyOptions
<1>2. \A k \in Fields : /\ Of(opts, k) = {} => c[k] = defaultClientConfig[k]
                        /\ Of(opts, k) # {} => /\ Max(Of(opts, k)) \in Of(opts, k)
                                               /\ c[k] = Applied(opts[Max(Of(opts, k))])
  BY FieldValue
<1> HIDE DEF c
<1>3. \A k : \A i \in Of(opts, k) : i \in DOMAIN opts /\ opts[i].kind = k /\ Accepts(opts[i])
  BY <1>1 DEF Of
<1>4. \A i \in DOMAIN opts : Valid(opts[i])
  <2> SUFFICES ASSUME NEW i \in DOMAIN opts
               PROVE  Valid(opts[i])
    OBVIOUS
  <2>1. Accepts(opts[i])
    BY <1>1
  <2>2. CASE opts[i].kind = "pin"
    <3>1. opts[i].value \in Pins /\ Deref(opts[i].value, pin) \in Digests
      BY <2>1, <2>2, AcceptsByKind DEF Made
    <3>2. opts[i].value \in Digests
      BY <3>1, ValuesAssumption DEF Deref
    <3> QED
      BY <2>2, <3>2 DEF Valid, Numbers
  <2>3. CASE opts[i].kind # "pin"
    BY <2>1, <2>3, AcceptsByKind
  <2> QED
    BY <2>2, <2>3
<1>5. c.token = IF Of(opts, "token") = {} THEN "" ELSE LastOf(opts, "token")
  BY <1>2, <1>3, Defaults, AppliedByKind DEF Fields, LastOf
<1>6. /\ c.serverName = IF Of(opts, "serverName") = {} THEN "" ELSE LastOf(opts, "serverName")
      /\ Of(opts, "serverName") # {} => LastOf(opts, "serverName") # ""
  BY <1>2, <1>3, Defaults, AppliedByKind, AcceptsByKind DEF Fields, LastOf
<1>7. c.insecure = (Of(opts, "insecure") # {})
  <2>1. CASE Of(opts, "insecure") = {}
    <3>1. c.insecure = FALSE
      BY <1>2, <2>1, Defaults DEF Fields
    <3> QED
      BY <2>1, <3>1
  <2>2. CASE Of(opts, "insecure") # {}
    <3>1. PICK i \in Of(opts, "insecure") : c.insecure = Applied(opts[i])
      BY <1>2, <2>2 DEF Fields
    <3>2. Applied(opts[i]) = opts[i].value /\ opts[i].value = TRUE
      BY <1>3, AppliedByKind DEF Made
    <3> QED
      BY <2>2, <3>1, <3>2
  <2> QED
    BY <2>1, <2>2
<1>8. c.rootCAs = IF Of(opts, "rootCAs") = {} THEN None ELSE pool
  <2>1. ASSUME NEW i \in Of(opts, "rootCAs")
        PROVE  Applied(opts[i]) = pool
    <3>1. opts[i].kind = "rootCAs" /\ opts[i].value = Shared
      BY <1>3, AcceptsByKind DEF Made
    <3> QED
      BY <3>1, AppliedByKind DEF Deref
  <2> QED
    BY <1>2, <2>1, Defaults DEF Fields
<1>9. /\ c.pin = IF Of(opts, "pin") = {} THEN None ELSE LastOf(opts, "pin")
      /\ Of(opts, "pin") # {} => LastOf(opts, "pin") \in Digests
  <2>1. ASSUME NEW i \in Of(opts, "pin")
        PROVE  Applied(opts[i]) = opts[i].value /\ opts[i].value \in Digests
    <3>1. opts[i].kind = "pin" /\ opts[i].value \in Pins /\ Accepts(opts[i])
      BY <1>3 DEF Made
    <3>2. opts[i].value # Shared
      BY <3>1, ValuesAssumption
    <3> QED
      BY <3>1, <3>2, AppliedByKind, AcceptsByKind DEF Deref
  <2> QED
    BY <1>2, <2>1, Defaults DEF Fields, LastOf
<1>10. Of(opts, "insecure") # {} => Of(opts, "rootCAs") = {} /\ Of(opts, "pin") = {}
  BY <1>1, <1>7, <1>8, <1>9, ConnectBounds, ValuesAssumption
<1>11. ASSUME NEW k \in Numbers
       PROVE  c[k] > 0
  <2>1. k \in Fields /\ defaultClientConfig[k] \in Nat \ {0}
    BY Defaults
  <2>2. ASSUME NEW i \in Of(opts, k)
        PROVE  Applied(opts[i]) > 0
    <3>1. opts[i].kind \in Numbers /\ Accepts(opts[i])
      BY <1>3, <2>2
    <3>2. opts[i].kind \notin {"rootCAs", "pin"}
      BY <3>1 DEF Numbers
    <3> QED
      BY <3>1, <3>2, AppliedByKind, AcceptsByKind
  <2> QED
    BY <1>2, <2>1, <2>2
<1> QED
  BY <1>1, <1>4, <1>5, <1>6, <1>7, <1>8, <1>9, <1>10, <1>11

-----------------------------------------------------------------------------
\* The invariant.  A pin option holds the bytes the program's buffer had when
\* it was made; a pool option only points to the program's pool.
OptionValues == Makes \cup {[m EXCEPT !.value = v] : m \in Makes, v \in Pins \cup {Shared}}

PinIsLast(opts) == \A i : IsLast(opts, "pin", Len(opts), i) => opts[i].value = pinMade

ProgramInv ==
  /\ pin \in Pins /\ pool \in Pools /\ list \in Lists
  /\ options \in Seq(OptionValues) /\ Made(options) /\ PinIsLast(options)

\* What was dialled is what the options of the call ask for.
AsAsked ==
  pc \notin {"idle", "failed"} =>
    /\ asked.pool \in Pools
    /\ cfg.token = IF Given("token") = {} THEN "" ELSE LastGiven("token")
    /\ tls.skipVerify = (Given("insecure") # {})
    /\ Given("insecure") # {} => asked.addr \in {"localhost"} \cup LoopbackIPs
    /\ tls.rootCAs = IF Given("rootCAs") = {} THEN None ELSE asked.pool
    /\ tls.serverName = IF Given("serverName") = {} THEN asked.addr
                                                    ELSE LastGiven("serverName")
    /\ tls.pin = IF Given("pin") = {} THEN None ELSE pinMade

PeerVerified ==
  pc \in {"up", "open"} /\ Given("insecure") = {} =>
    /\ peer.ca \in (IF Given("rootCAs") = {} THEN SystemRoots ELSE asked.pool)
    /\ peer.name = (IF Given("serverName") = {} THEN asked.addr ELSE LastGiven("serverName"))
    /\ Given("pin") # {} => peer.key = pinMade

\* The filter holds a copy of the list it was built from, or points to it.
FilterInv ==
  /\ filter.exclude = None
  /\ filter.include \in {None} \cup Lists /\ filter.required \in {None, Shared}
  /\ filter.include # None => filter.required = None /\ filter.include = meant.accounts
  /\ filter.include = None /\ filter.required = None => meant.accounts = {}
  /\ filter.vote = meant.vote

Marshalled ==
  /\ sent \in Nat
  /\ msg # None => pc \in {"up", "open"}
  /\ pc = "up" /\ msg # None => sent > 0
  /\ msg # None /\ msg.token # None =>
       /\ sent = (IF pc = "open" THEN 0 ELSE 1)
       /\ msg.token = cfg.token /\ cfg.token # ""
  /\ msg # None /\ pc = "open" /\ sent > 0 => ~msg.full

ConnectInv ==
  /\ ProgramInv /\ AsAsked /\ PeerVerified /\ FilterInv /\ Marshalled
  /\ DialledOnlyIfValid /\ MessageAsBuilt

LEMMA MadeBy ==
  ASSUME NEW make \in Makes, pin \in Pins
  PROVE  /\ with(make) \in OptionValues
         /\ with(make).kind = make.kind
         /\ make.kind = "insecure" => with(make).value = TRUE
         /\ make.kind = "rootCAs" => with(make).value \in {None, Shared}
         /\ make.kind = "pin" => with(make).value = pin
<1>1. CASE make.kind = "pin"
  <2>1. with(make) = [make EXCEPT !.value = pin]
    BY <1>1, Zenon DEF with
  <2> QED
    BY <1>1, <2>1, ValuesAssumption DEF OptionValues
<1>2. CASE make.kind = "rootCAs" /\ make.value # None
  <2>1. with(make) = [make EXCEPT !.value = Shared]
    BY <1>2, Zenon DEF with
  <2> QED
    BY <1>2, <2>1, ValuesAssumption DEF OptionValues
<1>3. CASE make.kind # "pin" /\ ~ (make.kind = "rootCAs" /\ make.value # None)
  <2>1. with(make) = make
    BY <1>3, Zenon DEF with
  <2> QED
    BY <1>3, <2>1, ValuesAssumption DEF OptionValues
<1> QED
  BY <1>1, <1>2, <1>3

LEMMA MakeOptionStep ==
  ASSUME ProgramInv, NEW make \in Makes, MakeOption(make)
  PROVE  ProgramInv'
<1> DEFINE o == with(make)
           n == Len(options)
<1>1. /\ options' = Append(options, o) /\ UNCHANGED <<pin, pool, list>>
      /\ pinMade' = IF make.kind = "pin" THEN pin ELSE pinMade
  BY DEF MakeOption, programVars
<1>2. /\ o \in OptionValues /\ o.kind = make.kind
      /\ make.kind = "insecure" => o.value = TRUE
      /\ make.kind = "rootCAs" => o.value \in {None, Shared}
      /\ make.kind = "pin" => o.value = pin
  BY MadeBy DEF ProgramInv
<1> HIDE DEF o
<1>3. /\ options \in Seq(OptionValues) /\ n \in Nat /\ DOMAIN options = 1 .. n
      /\ options' \in Seq(OptionValues) /\ Len(options') = n + 1
      /\ DOMAIN options' = 1 .. n + 1
      /\ \A i \in 1 .. n : options'[i] = options[i]
      /\ options'[n + 1] = o
  BY <1>1, <1>2 DEF ProgramInv
<1>4. Made(options')
  BY <1>2, <1>3 DEF ProgramInv, Made
<1>5. ASSUME NEW i, IsLast(options', "pin", n + 1, i)
      PROVE  options'[i].value = pinMade'
  <2>1. CASE i = n + 1
    BY <1>1, <1>2, <1>3, <1>5, <2>1 DEF IsLast
  <2>2. CASE i # n + 1
    <3>1. IsLast(options, "pin", n, i) /\ o.kind # "pin" /\ i \in 1 .. n
      BY <1>3, <1>5, <2>2 DEF IsLast
    <3> QED
      BY <1>1, <1>2, <1>3, <3>1 DEF ProgramInv, PinIsLast
  <2> QED
    BY <2>1, <2>2
<1>6. PinIsLast(options)'
  BY <1>3, <1>5 DEF PinIsLast
<1>7. Made(options)'
  BY <1>4 DEF Made
<1> QED
  BY <1>1, <1>3, <1>6, <1>7 DEF ProgramInv

-----------------------------------------------------------------------------
\* Connect, with any options of the program's making: refused, or dialled as asked.
LEMMA ConnectStep ==
  ASSUME ConnectInv, NEW addr, NEW opts, Made(opts), PinIsLast(opts), Connect(addr, opts)
  PROVE  ConnectInv'
<1>1. /\ cfg' = applyOptions(opts)
      /\ tls' = IF cfg' = Failed THEN Failed ELSE newTLSConfig(addr, cfg')
      /\ pc' = IF tls' = Failed THEN "failed" ELSE "dial"
      /\ asked' = [addr |-> addr, options |-> opts, pool |-> pool]
      /\ sent' = 0 /\ msg' = None
      /\ UNCHANGED <<programVars, optionVars>>
  BY DEF Connect
<1>2. UNCHANGED <<pin, pool, list, filter, meant, options, pinMade>>
  BY <1>1 DEF programVars, optionVars
<1>3. /\ asked'.addr = addr /\ asked'.pool = pool /\ asked'.options = opts
      /\ \A k : Given(k)' = Of(opts, k) /\ LastGiven(k)' = LastOf(opts, k)
  BY <1>1 DEF Given, LastGiven, Of, LastOf
<1>4. ProgramInv' /\ FilterInv' /\ Marshalled' /\ PeerVerified' /\ MessageAsBuilt'
  <2>1. ProgramInv'
    BY <1>2 DEF ConnectInv, ProgramInv, PinIsLast, Made
  <2>2. pc' \in {"failed", "dial"}
    BY <1>1
  <2> QED
    BY <1>1, <1>2, <2>1, <2>2
       DEF ConnectInv, FilterInv, Marshalled, PeerVerified, MessageAsBuilt
<1>5. CASE tls' = Failed
  BY <1>1, <1>4, <1>5 DEF ConnectInv, AsAsked, DialledOnlyIfValid
<1>6. CASE tls' # Failed
  <2>1. cfg' # Failed /\ tls' = newTLSConfig(addr, cfg') /\ pool \in Pools
    BY <1>1, <1>6 DEF ConnectInv, ProgramInv
  <2>2. /\ ~ (cfg'.insecure /\ ~ isLoopbackHost(addr)) /\ addr \in HostPorts
        /\ tls'.serverName = IF cfg'.serverName = "" THEN addr ELSE cfg'.serverName
        /\ tls'.rootCAs = cfg'.rootCAs /\ tls'.skipVerify = cfg'.insecure
        /\ tls'.pin = cfg'.pin
    BY <1>6, <2>1 DEF newTLSConfig
  <2>3. /\ \A i \in DOMAIN opts : Valid(opts[i])
        /\ Of(opts, "insecure") # {} => Of(opts, "rootCAs") = {} /\ Of(opts, "pin") = {}
        /\ Of(opts, "pin") # {} => LastOf(opts, "pin") \in Digests
        /\ \A k \in Numbers : cfg'[k] > 0
        /\ cfg'.token = IF Of(opts, "token") = {} THEN "" ELSE LastOf(opts, "token")
        /\ cfg'.insecure = (Of(opts, "insecure") # {})
        /\ cfg'.rootCAs = IF Of(opts, "rootCAs") = {} THEN None ELSE pool
        /\ cfg'.serverName =
             IF Of(opts, "serverName") = {} THEN "" ELSE LastOf(opts, "serverName")
        /\ Of(opts, "serverName") # {} => LastOf(opts, "serverName") # ""
        /\ cfg'.pin = IF Of(opts, "pin") = {} THEN None ELSE LastOf(opts, "pin")
    BY <1>1, <2>1, OptionsValidated
  <2>4. Of(opts, "pin") # {} => LastOf(opts, "pin") = pinMade
    <3> SUFFICES ASSUME Of(opts, "pin") # {}
                 PROVE  LastOf(opts, "pin") = pinMade
      OBVIOUS
    <3>1. Len(opts) \in Nat /\ DOMAIN opts = 1 .. Len(opts)
      BY DEF Made
    <3>2. PICK m \in 1 .. Len(opts) : opts[m].kind = "pin"
      BY <3>1 DEF Of
    <3>3. PICK i : IsLast(opts, "pin", Len(opts), i)
      BY <3>1, <3>2, LastExists
    <3>4. Max(Of(opts, "pin")) = i
      BY <3>1, <3>3, LastIsMax DEF Of
    <3> QED
      BY <3>3, <3>4 DEF PinIsLast, LastOf
  <2>5. Of(opts, "insecure") # {} => addr \in {"localhost"} \cup LoopbackIPs
    BY <2>2, <2>3 DEF isLoopbackHost
  <2>6. AsAsked'
    BY <1>2, <1>3, <2>1, <2>2, <2>3, <2>4, <2>5 DEF AsAsked
  <2>7. DialledOnlyIfValid'
    <3>1. \A i \in DOMAIN asked'.options : Valid(asked'.options[i])
      BY <1>3, <2>3
    <3> QED
      BY <1>2, <1>3, <2>2, <2>3, <2>4, <2>5, <3>1 DEF DialledOnlyIfValid, Valid
  <2> QED
    BY <1>4, <2>6, <2>7 DEF ConnectInv
<1> QED
  BY <1>5, <1>6

\* The second token a program may connect with comes before its own options.
LEMMA TokenFirst ==
  ASSUME ProgramInv, NEW t, t.kind = "token", NEW opts, opts = <<t>> \o options
  PROVE  Made(opts) /\ PinIsLast(opts)
<1> DEFINE n == Len(options)
<1>1. options \in Seq(OptionValues \cup {t}) /\ <<t>> \in Seq(OptionValues \cup {t})
      /\ n \in Nat /\ DOMAIN options = 1 .. n
  BY DEF ProgramInv, Made
<1>2. /\ opts \in Seq(OptionValues \cup {t}) /\ Len(opts) = n + 1
      /\ DOMAIN opts = 1 .. n + 1
      /\ opts[1] = t /\ \A i \in 2 .. n + 1 : opts[i] = options[i - 1]
  BY <1>1
<1>3. Made(opts)
  BY <1>1, <1>2 DEF ProgramInv, Made
<1>4. ASSUME NEW i, IsLast(opts, "pin", n + 1, i)
      PROVE  opts[i].value = pinMade
  <2>1. i \in 2 .. n + 1 /\ opts[i] = options[i - 1] /\ i - 1 \in 1 .. n
    BY <1>1, <1>2, <1>4 DEF IsLast
  <2>2. \A j \in (i - 1) + 1 .. n : options[j].kind # "pin"
    <3> SUFFICES ASSUME NEW j \in (i - 1) + 1 .. n
                 PROVE  options[j].kind # "pin"
      OBVIOUS
    <3>1. j + 1 \in i + 1 .. n + 1 /\ j + 1 \in 2 .. n + 1 /\ (j + 1) - 1 = j
      BY <1>1, <2>1
    <3> QED
      BY <1>2, <1>4, <3>1 DEF IsLast
  <2>3. IsLast(options, "pin", n, i - 1)
    BY <1>4, <2>1, <2>2 DEF IsLast
  <2> QED
    BY <2>1, <2>3 DEF ProgramInv, PinIsLast
<1> QED
  BY <1>2, <1>3, <1>4 DEF PinIsLast

-----------------------------------------------------------------------------
\* Steps after which the options, the call of Connect and what it made are the same.
LEMMA CallKept ==
  ASSUME UNCHANGED <<connVars, pinMade>>
  PROVE  /\ UNCHANGED <<cfg, tls, asked, peer>>
         /\ \A k : Given(k)' = Given(k) /\ LastGiven(k)' = LastGiven(k)
BY DEF connVars, Given, LastGiven

LEMMA ProgramKept ==
  ASSUME ProgramInv, UNCHANGED optionVars,
         pin' \in Pins, pool' \in Pools, list' \in Lists
  PROVE  ProgramInv'
BY DEF ProgramInv, PinIsLast, Made, optionVars

LEMMA DialKept ==
  ASSUME AsAsked, DialledOnlyIfValid, UNCHANGED <<connVars, pinMade>>,
         pc' \notin {"idle", "failed"} => pc \notin {"idle", "failed"}
  PROVE  AsAsked' /\ DialledOnlyIfValid'
<1>1. AsAsked'
  BY CallKept DEF AsAsked
<1>2. DialledOnlyIfValid'
  BY CallKept DEF DialledOnlyIfValid
<1> QED
  BY <1>1, <1>2

LEMMA PeerKept ==
  ASSUME PeerVerified, UNCHANGED <<connVars, pinMade>>,
         pc' \in {"up", "open"} => pc \in {"up", "open"}
  PROVE  PeerVerified'
BY CallKept DEF PeerVerified

\* The program makes an option, or overwrites one of its variables.
LEMMA VariablesStep ==
  ASSUME ConnectInv,
         (\E make \in Makes : MakeOption(make)) \/ OverwritePinOrPool \/ OverwriteList
           \/ UNCHANGED vars
  PROVE  ConnectInv'
<1>1. UNCHANGED <<connVars, pc, filter, meant, tier, msg, msgMeant, sent>>
  BY DEF MakeOption, OverwritePinOrPool, OverwriteList, programVars, vars
<1>2. UNCHANGED <<cfg, tls, asked, peer>>
  BY <1>1 DEF connVars
<1>3. FilterInv' /\ Marshalled' /\ MessageAsBuilt'
  BY <1>1, <1>2 DEF ConnectInv, FilterInv, Marshalled, MessageAsBuilt
<1>4. CASE \E make \in Makes : MakeOption(make)
  <2>1. ProgramInv'
    BY <1>4, MakeOptionStep DEF ConnectInv
  <2>2. pc = "idle"
    BY <1>4 DEF MakeOption
  <2>3. AsAsked' /\ DialledOnlyIfValid' /\ PeerVerified'
    BY <1>1, <2>2 DEF AsAsked, DialledOnlyIfValid, PeerVerified
  <2> QED
    BY <1>3, <2>1, <2>3 DEF ConnectInv
<1>5. CASE OverwritePinOrPool \/ OverwriteList \/ UNCHANGED vars
  <2>1. /\ UNCHANGED optionVars
        /\ pin' \in Pins /\ pool' \in Pools /\ list' \in Lists
    BY <1>5 DEF OverwritePinOrPool, OverwriteList, vars, programVars, ConnectInv, ProgramInv
  <2>2. ProgramInv'
    BY <2>1, ProgramKept DEF ConnectInv
  <2>3. UNCHANGED pinMade
    BY <2>1 DEF optionVars
  <2>4. AsAsked' /\ DialledOnlyIfValid' /\ PeerVerified'
    BY <1>1, <2>3, DialKept, PeerKept DEF ConnectInv
  <2> QED
    BY <1>3, <2>2, <2>4 DEF ConnectInv
<1> QED
  BY <1>4, <1>5

LEMMA BuildFilterStep ==
  ASSUME ConnectInv, BuildFilter
  PROVE  ConnectInv'
<1>1. /\ UNCHANGED <<pin, pool, list, optionVars, connVars, pc, tier, msg, msgMeant, sent>>
      /\ meant'.accounts = list /\ meant'.vote = filter'.vote
  <2>1. CASE filter' = WithVote(Accounts(list), TRUE) /\ meant' = [accounts |-> list, vote |-> TRUE]
    <3>1. filter'.vote = TRUE
      BY <2>1 DEF Accounts, WithVote, NoFilter
    <3> QED
      BY <2>1, <3>1 DEF BuildFilter
  <2>2. CASE filter' = [NoFilter EXCEPT !.required = Shared]
               /\ meant' = [accounts |-> list, vote |-> None]
    BY <2>2 DEF BuildFilter, NoFilter
  <2> QED
    BY <2>1, <2>2 DEF BuildFilter
<1>2. UNCHANGED <<cfg, tls, asked, peer, pinMade>>
  BY <1>1 DEF connVars, optionVars
<1>3. list \in Lists
  BY DEF ConnectInv, ProgramInv
<1>4. /\ filter'.exclude = None
      /\ \/ filter'.include = list /\ filter'.required = None
         \/ filter'.include = None /\ filter'.required = Shared
  BY DEF BuildFilter, Accounts, WithVote, NoFilter
<1>5. FilterInv'
  BY <1>1, <1>3, <1>4, ValuesAssumption DEF FilterInv
<1>6. ProgramInv' /\ AsAsked' /\ DialledOnlyIfValid' /\ PeerVerified'
  BY <1>1, <1>2, ProgramKept, DialKept, PeerKept DEF ConnectInv, ProgramInv
<1>7. Marshalled' /\ MessageAsBuilt'
  BY <1>1, <1>2 DEF ConnectInv, Marshalled, MessageAsBuilt
<1> QED
  BY <1>5, <1>6, <1>7 DEF ConnectInv

\* Whoever answers is let through only if TLS and the pin check agree.
LEMMA HandshakeStep ==
  ASSUME ConnectInv, NEW p \in Peers, Handshake(p)
  PROVE  ConnectInv'
<1>1. /\ UNCHANGED <<programVars, optionVars, connects, cfg, tls, asked, tier, msg, msgMeant, sent>>
      /\ pc = "dial"
      /\ \/ pc' = "up" /\ peer' = p /\ TLSVerifies(p) /\ VerifyConnection(p)
         \/ pc' = "failed"
  BY DEF Handshake
<1>2. UNCHANGED <<pin, pool, list, filter, meant, options, pinMade>>
  BY <1>1 DEF programVars, optionVars
<1>3. \A k : Given(k)' = Given(k) /\ LastGiven(k)' = LastGiven(k)
  BY <1>1 DEF Given, LastGiven
<1>4. ProgramInv' /\ FilterInv'
  BY <1>1, <1>2, ProgramKept DEF ConnectInv, ProgramInv, FilterInv
<1>5. AsAsked' /\ DialledOnlyIfValid'
  <2>1. AsAsked'
    BY <1>1, <1>2, <1>3 DEF ConnectInv, AsAsked
  <2>2. DialledOnlyIfValid'
    BY <1>1, <1>2, <1>3 DEF ConnectInv, DialledOnlyIfValid
  <2> QED
    BY <2>1, <2>2
<1>6. msg = None
  BY <1>1 DEF ConnectInv, Marshalled
<1>7. Marshalled' /\ MessageAsBuilt'
  BY <1>1, <1>6 DEF ConnectInv, Marshalled, MessageAsBuilt
<1>8. PeerVerified'
  <2> SUFFICES ASSUME pc' = "up", Given("insecure") = {}
               PROVE  /\ p.ca \in (IF Given("rootCAs") = {} THEN SystemRoots ELSE asked.pool)
                      /\ p.name = (IF Given("serverName") = {} THEN asked.addr
                                                               ELSE LastGiven("serverName"))
                      /\ Given("pin") # {} => p.key = pinMade
    BY <1>1, <1>2, <1>3 DEF PeerVerified
  <2>1. /\ asked.pool \in Pools /\ tls.skipVerify = FALSE
        /\ tls.rootCAs = IF Given("rootCAs") = {} THEN None ELSE asked.pool
        /\ tls.serverName = IF Given("serverName") = {} THEN asked.addr
                                                        ELSE LastGiven("serverName")
        /\ tls.pin = IF Given("pin") = {} THEN None ELSE pinMade
    BY <1>1 DEF ConnectInv, AsAsked
  <2>2. /\ p.ca \in (IF tls.rootCAs = None THEN SystemRoots ELSE Deref(tls.rootCAs, pool))
        /\ p.name = tls.serverName
        /\ tls.pin # None => p.key = tls.pin
    BY <1>1, <2>1 DEF TLSVerifies, VerifyConnection
  <2>3. asked.pool # None /\ asked.pool # Shared
    BY <2>1, ValuesAssumption
  <2>4. Given("pin") # {} => pinMade # None
    BY <1>1, ConnectBounds, ValuesAssumption DEF ConnectInv, DialledOnlyIfValid
  <2> QED
    BY <2>1, <2>2, <2>3, <2>4 DEF Deref
<1> QED
  BY <1>4, <1>5, <1>7, <1>8 DEF ConnectInv

\* A message is marshalled from the filter as it is, and with the token if it is
\* the first.
LEMMA RoundTripStep ==
  ASSUME ConnectInv, NEW full \in BOOLEAN, NEW fields \in {None, {"alt"}},
         controlRoundTrip(full, fields)
  PROVE  ConnectInv'
<1>1. /\ pc = "up" /\ pc' = "open"
      /\ msg' = IF sent = 0 THEN MarshalJSON(cfg.token, filter, full, fields)
                            ELSE MarshalJSON("", filter, FALSE, fields)
      /\ msgMeant'.accounts = IF filter.required = Shared THEN list ELSE meant.accounts
      /\ msgMeant'.vote = meant.vote /\ msgMeant'.fields = fields
      /\ UNCHANGED <<programVars, optionVars, connVars, sent>>
  BY DEF controlRoundTrip
<1>2. /\ UNCHANGED <<pin, pool, list, filter, meant, options, pinMade>>
      /\ UNCHANGED <<connects, cfg, tls, asked, peer>>
  BY <1>1 DEF programVars, optionVars, connVars
<1>3. ProgramInv' /\ AsAsked' /\ DialledOnlyIfValid' /\ PeerVerified' /\ FilterInv'
  BY <1>1, <1>2, ProgramKept, DialKept, PeerKept DEF ConnectInv, ProgramInv, FilterInv
<1>4. /\ msg'.token = IF sent = 0 /\ cfg.token # "" THEN cfg.token ELSE None
      /\ msg'.include = nonNil(Deref(filter.include, list))
      /\ msg'.exclude = nonNil(Deref(filter.exclude, list))
      /\ msg'.required = nonNil(Deref(filter.required, list))
      /\ msg'.vote = filter.vote /\ msg'.fields = nonNil(fields)
      /\ sent > 0 => msg'.full = FALSE
  <2>1. sent \in Nat
    BY DEF ConnectInv, Marshalled
  <2>2. CASE sent = 0
    <3>1. msg' = MarshalJSON(cfg.token, filter, full, fields)
      BY <1>1, <2>2
    <3>2. msg'.token = IF cfg.token = "" THEN None ELSE cfg.token
      BY <3>1 DEF MarshalJSON
    <3>3. /\ msg'.include = nonNil(Deref(filter.include, list))
          /\ msg'.exclude = nonNil(Deref(filter.exclude, list))
          /\ msg'.required = nonNil(Deref(filter.required, list))
          /\ msg'.vote = filter.vote /\ msg'.fields = nonNil(fields)
      BY <3>1 DEF MarshalJSON
    <3>4. msg'.token = IF sent = 0 /\ cfg.token # "" THEN cfg.token ELSE None
      BY <2>2, <3>2
    <3>5. ~ (sent > 0)
      BY <2>2
    <3> QED
      BY <3>3, <3>4, <3>5
  <2>3. CASE sent # 0
    <3>1. msg' = MarshalJSON("", filter, FALSE, fields)
      BY <1>1, <2>3
    <3> QED
      BY <2>3, <3>1 DEF MarshalJSON
  <2> QED
    BY <2>2, <2>3
<1>5. Marshalled'
  BY <1>1, <1>2, <1>4 DEF ConnectInv, Marshalled
<1>6. /\ list \in Lists /\ filter.exclude = None
      /\ filter.include \in {None} \cup Lists /\ filter.required \in {None, Shared}
      /\ filter.include # None => filter.required = None /\ filter.include = meant.accounts
      /\ filter.include = None /\ filter.required = None => meant.accounts = {}
      /\ filter.vote = meant.vote
  BY DEF ConnectInv, ProgramInv, FilterInv
<1>7. /\ msg'.include \cup msg'.required = msgMeant'.accounts
      /\ msg'.exclude = {}
      /\ msg'.include \in Lists \cup {{}} /\ msg'.required \in Lists \cup {{}}
  <2>0. msgMeant'.accounts = IF filter.required = Shared THEN list ELSE meant.accounts
    BY <1>1
  <2>1. nonNil(Deref(None, list)) = {} /\ nonNil(Deref(Shared, list)) = list
    BY <1>6, ValuesAssumption DEF nonNil, Deref
  <2>2. CASE filter.include # None
    <3>1. nonNil(Deref(filter.include, list)) = filter.include
      BY <1>6, <2>2, ValuesAssumption DEF nonNil, Deref
    <3> QED
      BY <1>4, <1>6, <2>0, <2>1, <2>2, <3>1, ValuesAssumption
  <2>3. CASE filter.include = None /\ filter.required = Shared
    BY <1>4, <1>6, <2>0, <2>1, <2>3
  <2>4. CASE filter.include = None /\ filter.required = None
    BY <1>4, <1>6, <2>0, <2>1, <2>4, ValuesAssumption
  <2> QED
    BY <1>6, <2>2, <2>3, <2>4
<1>8. MessageAsBuilt'
  <2>0. sent \in Nat
    BY DEF ConnectInv, Marshalled
  <2>1. sent' = sent
    BY <1>1
  <2>2. sent > 1 => sent > 0
    BY <2>0
  <2> QED
    BY <1>1, <1>4, <1>6, <1>7, <2>1, <2>2 DEF MessageAsBuilt, nonNil
<1> QED
  BY <1>3, <1>5, <1>8 DEF ConnectInv

LEMMA WriteStep ==
  ASSUME ConnectInv, WriteControl
  PROVE  ConnectInv'
<1>1. /\ pc = "open" /\ pc' = "up" /\ sent' = sent + 1 /\ sent \in Nat
      /\ UNCHANGED <<programVars, optionVars, connVars, tier, msg, msgMeant>>
  BY DEF WriteControl, ConnectInv, Marshalled
<1>2. /\ UNCHANGED <<pin, pool, list, filter, meant, options, pinMade>>
      /\ UNCHANGED <<connects, cfg, tls, asked, peer>>
  BY <1>1 DEF programVars, optionVars, connVars
<1>3. ProgramInv' /\ AsAsked' /\ DialledOnlyIfValid' /\ PeerVerified' /\ FilterInv'
  BY <1>1, <1>2, ProgramKept, DialKept, PeerKept DEF ConnectInv, ProgramInv, FilterInv
<1>4. Marshalled'
  <2>1. sent' \in Nat /\ sent' > 0 /\ (sent = 0 => sent' = 1)
    BY <1>1
  <2>2. msg # None /\ msg.token # None =>
          sent = 0 /\ msg.token = cfg.token /\ cfg.token # ""
    BY <1>1 DEF ConnectInv, Marshalled
  <2> QED
    BY <1>1, <1>2, <2>1, <2>2 DEF Marshalled
<1>5. MessageAsBuilt'
  <2>1. sent' > 1 => sent > 0
    BY <1>1
  <2> QED
    BY <1>1, <2>1 DEF ConnectInv, Marshalled, MessageAsBuilt
<1> QED
  BY <1>3, <1>4, <1>5 DEF ConnectInv

-----------------------------------------------------------------------------
LEMMA ConnectInit == Init => ConnectInv
<1> SUFFICES ASSUME Init PROVE ConnectInv
  OBVIOUS
<1>1. options = <<>> /\ Len(options) = 0 /\ DOMAIN options = 1 .. Len(options)
      /\ options \in Seq(OptionValues)
  BY DEF Init
<1>2. ProgramInv
  BY <1>1 DEF Init, ProgramInv, Made, PinIsLast, IsLast
<1>3. AsAsked /\ PeerVerified /\ DialledOnlyIfValid
  BY DEF Init, AsAsked, PeerVerified, DialledOnlyIfValid
<1>4. FilterInv /\ Marshalled /\ MessageAsBuilt
  BY DEF Init, NoFilter, Nothing, FilterInv, Marshalled, MessageAsBuilt
<1> QED
  BY <1>2, <1>3, <1>4 DEF ConnectInv

LEMMA ConnectNext == ConnectInv /\ [Next]_vars => ConnectInv'
<1> SUFFICES ASSUME ConnectInv, [Next]_vars PROVE ConnectInv'
  OBVIOUS
<1>1. ASSUME NEW addr \in Addrs, Connect(addr, options)
      PROVE  ConnectInv'
  BY <1>1, ConnectStep DEF ConnectInv, ProgramInv
<1>2. ASSUME NEW addr \in Addrs, ConnectWithToken(addr, "other token")
      PROVE  ConnectInv'
  <2> DEFINE t == with([kind |-> "token", value |-> "other token"])
  <2>1. t = [kind |-> "token", value |-> "other token"]
    BY DEF with
  <2>3. Connect(addr, <<t>> \o options)
    BY <1>2 DEF ConnectWithToken
  <2> HIDE DEF t
  <2>2. t.kind = "token"
    BY <2>1
  <2> QED
    BY <2>2, <2>3, TokenFirst, ConnectStep DEF ConnectInv
<1>3. CASE \/ \E make \in Makes : MakeOption(make)
           \/ OverwritePinOrPool \/ OverwriteList \/ UNCHANGED vars
  BY <1>3, VariablesStep
<1> QED
  BY <1>1, <1>2, <1>3, BuildFilterStep, HandshakeStep, RoundTripStep, WriteStep DEF Next

LEMMA ConnectInvariance == Spec => []ConnectInv
BY ConnectInit, ConnectNext, PTL DEF Spec

\* A token is in the first message only, and that goes to a peer whose chain, name
\* and key are those the options ask for, or to a loopback address without them.
THEOREM TokenOnlyToVerified == Spec => []TokenToVerifiedPeer
<1>1. ConnectInv => TokenToVerifiedPeer
  <2> SUFFICES ASSUME ConnectInv, msg # None, msg.token # None
               PROVE  TokenToVerifiedPeer
    BY DEF TokenToVerifiedPeer
  <2>1. /\ pc \in {"up", "open"} /\ cfg.token # "" /\ msg.token = cfg.token
        /\ sent = (IF pc = "open" THEN 0 ELSE 1)
    BY DEF ConnectInv, Marshalled
  <2>2. /\ msg.token = LastGiven("token")
        /\ Given("insecure") # {} => asked.addr \in {"localhost"} \cup LoopbackIPs
    BY <2>1 DEF ConnectInv, AsAsked
  <2> QED
    BY <2>1, <2>2 DEF ConnectInv, PeerVerified, TokenToVerifiedPeer
<1> QED
  BY <1>1, ConnectInvariance, PTL

\* However many options there are, and in whatever order: only a host:port is
\* dialled, each option is valid, also one that is overridden, verification is off
\* at a loopback address only, without roots or a pin, and all numbers are positive.
THEOREM OnlyValidDialled == Spec => []DialledOnlyIfValid
<1>1. ConnectInv => DialledOnlyIfValid
  BY DEF ConnectInv
<1> QED
  BY <1>1, ConnectInvariance, PTL

\* A message carries the accounts its filter was built from, or holds when the
\* call is made, its vote and the call's fields, and no update changes the tier.
THEOREM MessageIsAsBuilt == Spec => []MessageAsBuilt
<1>1. ConnectInv => MessageAsBuilt
  BY DEF ConnectInv
<1> QED
  BY <1>1, ConnectInvariance, PTL
=============================================================================
