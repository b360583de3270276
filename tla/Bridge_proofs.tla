---------------------------- MODULE Bridge_proofs ----------------------------
(***************************************************************************)
(* Theorems about Bridge, for any limits, any files and environments and   *)
(* any events: what is open at any time, which settings come out of the    *)
(* configuration, how long the waits between attempts are, and that events *)
(* reach webhooks whole.                                                   *)
(***************************************************************************)
EXTENDS Bridge, FiniteSetTheorems, TLAPS

(* What is open in each phase; in "stopping" what is left of it. *)
OpenIn(p) ==
    CASE p \in {"start", "configured", "connected", "exited"} -> {{}}
      [] p = "observed" -> {{"telemetry"}}
      [] p \in {"forwarding", "warming"} -> {{"telemetry", "forwarder"}}
      [] p = "serving" -> {{"telemetry", "forwarder", "handler"}}
      [] OTHER -> {{"telemetry", "forwarder", "handler"},
                   {"telemetry", "forwarder"}, {"telemetry"}, {}}

Phase == {"start", "configured", "connected", "observed", "forwarding",
          "warming", "serving", "stopping", "exited"}

Parts == phase \in Phase /\ open \in OpenIn(phase)

(* The configuration is the one the scenario gives, and only one that may  *)
(* be started with is ever loaded. *)
Loaded(w) ==
    /\ world = w
    /\ config = <<>> => phase \in {"start", "exited"}
    /\ config # <<>> => config = Configured(w) /\ Startable(w)

(* The forwarder's settings come from that configuration, and from the     *)
(* creation of the forwarder on there are some. *)
Created(w) ==
    /\ phase \in {"forwarding", "warming", "serving"} => settings # <<>>
    /\ settings # <<>> => config # <<>> /\ settings = Settings(Configured(w))

(* the policy of that configuration *)
PolicyIn(w) == RetryOf(Settings(Configured(w)))

(* The nominal wait by repeated doubling is the one by a power of two. *)
Nominal(p, n) == Smaller(p.MaxDelay, p.BaseDelay * 2^(n - 1))

Series(w) ==
    /\ attempt > 0 => settings # <<>> /\ attempt <= PolicyIn(w).MaxRetries
    /\ \A n \in 1..AtMost["MaxRetries"] :
          attempt = n => /\ nominal = Nominal(PolicyIn(w), n)
                         /\ delay \in NextDelay(PolicyIn(w), n)

(* All of it follows from the scenario w. *)
Follows(w) == Loaded(w) /\ Created(w) /\ Series(w)

CallTypes == attempt \in Nat /\ delay \in Int /\ nominal \in Nat

WarmTypes == /\ warming \in {"off", "waiting", "returned"}
             /\ elapsed \in 0..WarmTimeout
             /\ \A i \in DOMAIN dial : dial[i] \in {"dialing", "over"}

(* what ContentKept says of a request r *)
Content(r) ==
    LET e == r.event
        sent == r.sent
    IN  IF sent.body[1] = "event" THEN sent.body[2] = e
        ELSE /\ BodyDecodes(e) /\ sent.body[2] = extractBody(e)
             /\ HeadersKept(e, sent.headers)
             /\ QueryKept(e, buildRawQuery(e))
             /\ r.webhook.parses => QueryKept(e, sent.url.added)

Sent == \A r \in {request} : r # <<>> => Content(r)

BridgeInv == /\ Parts
             /\ \E w \in Scenario : Follows(w)
             /\ CallTypes
             /\ WarmTypes
             /\ Sent

-----------------------------------------------------------------------------
(* Powers of two: a set of k elements has 2^k subsets. *)

LEMMA Subsets ==
  ASSUME NEW k \in Nat
  PROVE  /\ IsFiniteSet(SUBSET (1..k))
         /\ Cardinality(SUBSET (1..k)) = 2^k
         /\ 2^k \in Nat
  <1>1. IsFiniteSet(1..k) /\ Cardinality(1..k) = k
    BY FS_Interval
  <1>2. /\ IsFiniteSet(SUBSET (1..k))
        /\ Cardinality(SUBSET (1..k)) = 2^k
    BY <1>1, FS_SUBSET
  <1> QED
    BY <1>2, FS_CardinalityType

(* Powers of two are positive. *)
LEMMA PowerPositive ==
  ASSUME NEW k \in Nat
  PROVE  2^k \in Nat \ {0}
  <1>1. SUBSET (1..k) # {}
    OBVIOUS
  <1>2. Cardinality(SUBSET (1..k)) # 0
    BY <1>1, Subsets, FS_EmptySet
  <1> QED
    BY <1>2, Subsets

(* The subsets of 1..k+1 are those of 1..k, without and with k+1. *)
LEMMA Doubling ==
  ASSUME NEW k \in Nat
  PROVE  2^(k + 1) = 2 * 2^k
  <1> DEFINE old == SUBSET (1..k)
             new == {T \in SUBSET (1..k+1) : k + 1 \in T}
             with == [T \in old |-> T \cup {k + 1}]
  <1>1. SUBSET (1..k+1) = old \cup new
    OBVIOUS
  <1>2. old \cap new = {}
    OBVIOUS
  <1>3. with \in Bijection(old, new)
    <2>1. with \in [old -> new]
      OBVIOUS
    <2>2. IsInjective(with)
      <3> SUFFICES ASSUME NEW S \in old, NEW T \in old,
                          S \cup {k + 1} = T \cup {k + 1}
                   PROVE  S = T
        BY DEF IsInjective
      <3> QED
        OBVIOUS
    <2>3. \A T \in new : \E S \in old : with[S] = T
      <3> SUFFICES ASSUME NEW T \in new
                   PROVE  \E S \in old : with[S] = T
        OBVIOUS
      <3>1. T \ {k + 1} \in old /\ (T \ {k + 1}) \cup {k + 1} = T
        OBVIOUS
      <3> QED
        BY <3>1
    <2> QED
      BY <2>1, <2>2, <2>3 DEF Bijection, Injection, Surjection
  <1> HIDE DEF old, new, with
  <1>4. /\ IsFiniteSet(old) /\ Cardinality(old) = 2^k /\ 2^k \in Nat
    BY Subsets DEF old
  <1>5. ExistsBijection(old, new)
    BY <1>3 DEF ExistsBijection
  <1>6. IsFiniteSet(new) /\ Cardinality(new) = 2^k
    BY <1>4, <1>5, FS_Bijection
  <1>7. Cardinality(old \cup new) = 2^k + 2^k - Cardinality(old \cap new)
    BY <1>4, <1>6, FS_Union
  <1>8. Cardinality(SUBSET (1..k+1)) = 2^(k + 1)
    <2>1. k + 1 \in Nat
      OBVIOUS
    <2> QED
      BY <2>1, Subsets
  <1>9. Cardinality(old \cap new) = 0
    BY <1>2, FS_EmptySet
  <1>10. 2^k + 2^k - 0 = 2 * 2^k
    BY <1>4
  <1> QED
    BY <1>1, <1>7, <1>8, <1>9, <1>10

(* A higher power of two is no smaller. *)
LEMMA PowerMonotone ==
  ASSUME NEW k \in Nat, NEW n \in Nat, k <= n
  PROVE  2^k <= 2^n
  <1>1. SUBSET (1..k) \in SUBSET (SUBSET (1..n))
    OBVIOUS
  <1>2. Cardinality(SUBSET (1..k)) <= Cardinality(SUBSET (1..n))
    BY <1>1, Subsets, FS_Subset
  <1> QED
    BY <1>2, Subsets

-----------------------------------------------------------------------------
(* Arithmetic *)

(* A number of Width bits is what is left of it in Width bits. *)
LEMMA WrappedExact ==
  ASSUME NEW n \in Machine
  PROVE  Wrapped(n) = n
  <1> DEFINE half == 2^(Width - 1)
  <1>1. Width - 1 \in Nat
    BY LimitAssumption
  <1>2. half \in Nat \ {0} /\ 2^Width = 2 * half
    <2>1. (Width - 1) + 1 = Width
      BY LimitAssumption
    <2> QED
      BY <1>1, <2>1, PowerPositive, Doubling
  <1> HIDE DEF half
  <1>3. n \in Int /\ -half <= n /\ n < half
    BY <1>2 DEF Machine, half
  <1>4. (n + half) % (2 * half) = n + half
    BY <1>2, <1>3
  <1> QED
    BY <1>2, <1>3, <1>4 DEF Wrapped, half

(* What is left of a number in Width bits is an int. *)
LEMMA WrappedType ==
  ASSUME NEW n \in Int
  PROVE  Wrapped(n) \in Int
  <1>1. 2^(Width - 1) \in Nat /\ 2^Width \in Nat \ {0}
    BY LimitAssumption, PowerPositive
  <1> QED
    BY <1>1 DEF Wrapped

(* A product grows with each of its factors. *)
LEMMA ProductMonotone ==
  ASSUME NEW a \in Nat, NEW b \in Nat, NEW c \in Nat, a <= b
  PROVE  a * c \in Nat /\ a * c <= b * c
  OBVIOUS

-----------------------------------------------------------------------------
(* Settings *)

(* what the environment or, where it is silent, the file asks for *)
Asked(w, f) == IF w.environ.int[f] # <<>> THEN w.environ.int[f][1]
                                          ELSE w.file[1].int[f]

(* A configuration that may be started with has the numbers asked for, and *)
(* none above its limit. *)
LEMMA ConfiguredInt ==
  ASSUME NEW w \in Scenario, Startable(w), NEW f \in Setting
  PROVE  /\ Configured(w).int[f] = Asked(w, f)
         /\ Asked(w, f) \in Machine
         /\ Asked(w, f) <= AtMost[f]
         /\ Configured(w).bool["EnableJitter"] \in BOOLEAN
  <1>1. w.file \in Seq(Config) /\ w.environ \in Environ /\ w.file # <<>>
    BY ScenarioAssumption DEF Startable, Loads
  <1>2. w.file[1] \in Config
    BY <1>1
  <1> DEFINE base == [w.file[1] EXCEPT !.Environment =
                         <<normalizeEnv(EnvOf(w.environ)), "lower">>]
  <1>3. /\ base.int = w.file[1].int /\ base.bool = w.file[1].bool
        /\ DOMAIN base = DOMAIN w.file[1]
    BY <1>2 DEF Config
  <1>4. {"int", "bool", "WebhookURLs", "SNSTopicArn", "Environment"}
           \subseteq DOMAIN base
    BY <1>2, <1>3 DEF Config
  <1> HIDE DEF base
  <1>5. Configured(w) = Overridden(base, w.environ)
    BY DEF Configured, base
  <1>6. /\ Configured(w).int = [g \in IntField |->
                IF g \in DOMAIN w.environ.int
                THEN IntOf(w.environ.int[g], base.int[g]) ELSE base.int[g]]
        /\ Configured(w).bool = [g \in BoolField |->
                BoolOf(w.environ.bool[g], base.bool[g])]
    BY <1>4, <1>5 DEF Overridden
  <1>7. f \in IntField /\ f \in DOMAIN w.environ.int
    BY <1>1 DEF Environ, Setting, IntField
  <1>8. Configured(w).int[f] = Asked(w, f)
    BY <1>3, <1>6, <1>7 DEF Asked, IntOf
  <1>9. Asked(w, f) \in Machine
    <2>1. w.environ.int[f] \in Seq(Machine)
      BY <1>1, <1>7 DEF Environ
    <2>2. w.file[1].int[f] \in Machine
      BY <1>2, <1>7 DEF Config
    <2> QED
      BY <2>1, <2>2 DEF Asked
  <1>10. Configured(w).int[f] <= AtMost[f]
    BY <1>7 DEF Startable, Validate
  <1>11. Configured(w).bool["EnableJitter"] \in BOOLEAN
    <2>1. "EnableJitter" \in BoolField
      BY DEF BoolField
    <2>2. base.bool["EnableJitter"] \in BOOLEAN
      BY <1>2, <1>3, <2>1 DEF Config
    <2>3. Configured(w).bool["EnableJitter"] =
             BoolOf(w.environ.bool["EnableJitter"], base.bool["EnableJitter"])
      BY <1>6, <2>1
    <2>4. \A value : \A current \in BOOLEAN :
             BoolOf(value, current) \in BOOLEAN
      <3> SUFFICES ASSUME NEW value, NEW current \in BOOLEAN
                   PROVE  BoolOf(value, current) \in BOOLEAN
        OBVIOUS
      <3>1. CASE value = ""
        BY <3>1 DEF BoolOf
      <3>2. CASE value # ""
        <4>1. BoolOf(value, current) = (value \in {"true", "1"})
          BY <3>2 DEF BoolOf
        <4> QED
          BY <4>1
      <3> QED
        BY <3>1, <3>2
    <2> QED
      BY <2>2, <2>3, <2>4
  <1> QED
    BY <1>8, <1>9, <1>10, <1>11

(* A configuration is not the empty sequence that stands for there being   *)
(* none. *)
LEMMA ConfiguredSet ==
  ASSUME NEW w \in Scenario, Startable(w)
  PROVE  Configured(w) # <<>>
  <1>1. w.file[1] \in Config
    BY ScenarioAssumption DEF Startable, Loads
  <1>2. "int" \in DOMAIN Configured(w)
    BY <1>1 DEF Config, Configured, Overridden
  <1>3. "int" \notin DOMAIN <<>>
    OBVIOUS
  <1> QED
    BY <1>2, <1>3

(* The settings of a forwarder are not the empty sequence either. *)
LEMMA SettingsSet ==
  ASSUME NEW c
  PROVE  Settings(c) # <<>>
  <1>1. "value" \in DOMAIN Settings(c)
    BY DEF Settings
  <1>2. "value" \notin DOMAIN <<>>
    OBVIOUS
  <1> QED
    BY <1>1, <1>2

(* The limits, the defaults and their units are positive numbers. *)
LEMMA LimitTypes ==
  ASSUME NEW f \in Setting
  PROVE  /\ AtMost[f] \in Nat \ {0} /\ Default[f] \in Nat \ {0}
         /\ Unit(f) \in Nat \ {0}
         /\ Default[f] <= AtMost[f]
         /\ AtMost[f] * Unit(f) < 2^(Width - 1)
         /\ 2^(Width - 1) \in Nat \ {0}
  <1>1. Width - 1 \in Nat
    BY LimitAssumption
  <1>2. f \in IntField
    BY DEF Setting, IntField
  <1> QED
    BY <1>1, <1>2, LimitAssumption, PowerPositive DEF Unit

(* What Effective makes of a number in the bits of an int. *)
LEMMA EffectiveSound ==
  ASSUME NEW f \in Setting, NEW n \in Machine, n <= AtMost[f]
  PROVE  /\ Effective(f, n) \in Nat \ {0}
         /\ n > 0 => Effective(f, n) = n * Unit(f)
         /\ n <= 0 => \/ n * Unit(f) < -(2^(Width - 1))
                      \/ Effective(f, n) = Default[f] * Unit(f)
         /\ \/ n * Unit(f) < -(2^(Width - 1))
            \/ Effective(f, n) \in 1..AtMost[f] * Unit(f)
  <1> DEFINE half == 2^(Width - 1)
             u == Unit(f)
             most == AtMost[f]
             dflt == Default[f]
  <1>1. /\ half \in Nat \ {0} /\ u \in Nat \ {0} /\ most \in Nat \ {0}
        /\ dflt \in Nat \ {0} /\ dflt <= most /\ most * u < half
    BY LimitTypes
  <1>2. n \in Int /\ n <= most
    BY <1>1 DEF Machine
  <1>3. Effective(f, n) = IF Wrapped(n * u) <= 0 THEN dflt * u
                          ELSE Wrapped(n * u)
    BY DEF Effective
  <1>4. -half <= n * u /\ n * u < half => Wrapped(n * u) = n * u
    <2>1. n * u \in Int /\ half \in Int
      BY <1>1, <1>2
    <2>2. -half <= n * u /\ n * u < half => n * u \in Machine
      BY <2>1 DEF Machine
    <2> QED
      BY <2>2, WrappedExact
  <1>5. Wrapped(n * u) \in Int
    <2>1. n * u \in Int
      BY <1>1, <1>2
    <2> QED
      BY <2>1, WrappedType
  <1> HIDE DEF half, u, most, dflt
  <1>6. dflt * u \in Nat \ {0} /\ dflt * u <= most * u
    <2>1. dflt * u \in Nat /\ dflt * u <= most * u
      BY <1>1, ProductMonotone
    <2>2. \A a, b \in Nat \ {0} : a * b # 0
      OBVIOUS
    <2> QED
      BY <1>1, <2>1, <2>2
  <1>7. CASE n > 0
    <2>1. n * u \in Nat /\ n * u <= most * u
      BY <1>1, <1>2, <1>7, ProductMonotone
    <2>2. n * u # 0
      <3>1. \A a, b \in Nat \ {0} : a * b # 0
        OBVIOUS
      <3> QED
        BY <1>1, <1>2, <1>7, <3>1
    <2>3. most * u \in Nat
      BY <1>1
    <2>4. Wrapped(n * u) = n * u
      BY <1>1, <1>4, <2>1, <2>3
    <2> QED
      BY <1>2, <1>3, <1>7, <2>1, <2>2, <2>3, <2>4 DEF u, most
  <1>8. CASE n <= 0
    <2>1. n * u \in Int /\ n * u <= 0
      <3>1. \A a \in Int, b \in Nat : a <= 0 => a * b \in Int /\ a * b <= 0
        OBVIOUS
      <3> QED
        BY <1>1, <1>2, <1>8, <3>1
    <2>2. n * u < -half \/ Effective(f, n) = dflt * u
      BY <1>1, <1>3, <1>4, <2>1
    <2>3. Effective(f, n) \in Nat \ {0}
      BY <1>3, <1>5, <1>6
    <2>4. most * u \in Nat
      BY <1>1
    <2> QED
      BY <1>2, <1>6, <1>8, <2>2, <2>3, <2>4 DEF u, most, half, dflt
  <1> QED
    BY <1>2, <1>7, <1>8

(* It is in the documented range, unless the product wraps or the number   *)
(* itself is positive and below the range, where it stays. *)
LEMMA EffectiveInRange ==
  ASSUME NEW f \in Setting, NEW n \in Machine, n <= AtMost[f]
  PROVE  \/ n * Unit(f) < -(2^(Width - 1))
         \/ n \in 1..AtLeast[f] - 1 /\ Effective(f, n) = n * Unit(f)
         \/ Effective(f, n) \in AtLeast[f] * Unit(f)..AtMost[f] * Unit(f)
  <1> DEFINE u == Unit(f)
             least == AtLeast[f]
             most == AtMost[f]
             dflt == Default[f]
  <1>1. /\ u \in Nat \ {0} /\ most \in Nat \ {0} /\ dflt \in Nat \ {0}
        /\ least \in Nat /\ least <= dflt /\ dflt <= most
    <2>1. f \in IntField
      BY DEF Setting, IntField
    <2> QED
      BY <2>1, LimitTypes, LimitAssumption
  <1>2. n \in Int /\ n <= most
    BY LimitTypes DEF Machine
  <1>3. /\ n > 0 => Effective(f, n) = n * u
        /\ n <= 0 => n * u < -(2^(Width - 1)) \/ Effective(f, n) = dflt * u
    BY EffectiveSound
  <1> HIDE DEF u, least, most, dflt
  <1>4. \A k \in Nat : least <= k /\ k <= most =>
                        k * u \in least * u .. most * u
    BY <1>1, ProductMonotone
  <1>5. CASE n > 0 /\ n < least
    BY <1>1, <1>2, <1>3, <1>5 DEF u, least
  <1>6. CASE n > 0 /\ n >= least
    BY <1>1, <1>2, <1>3, <1>4, <1>6 DEF u, least, most
  <1>7. CASE n <= 0
    BY <1>1, <1>3, <1>4, <1>7 DEF u, least, most, dflt
  <1> QED
    BY <1>1, <1>2, <1>5, <1>6, <1>7

(* The settings that come out of a configuration to start with. *)
LEMMA SettingsOf ==
  ASSUME NEW w \in Scenario, Startable(w), NEW f \in Setting
  PROVE  LET s == Settings(Configured(w))
         IN  /\ s.value[f] = Effective(f, Asked(w, f))
             /\ s.value[f] \in Nat \ {0}
             /\ s.EnableJitter \in BOOLEAN
             /\ Asked(w, f) > 0 => s.value[f] = Asked(w, f) * Unit(f)
             /\ \/ Asked(w, f) * Unit(f) < -(2^(Width - 1))
                \/ s.value[f] \in 1..AtMost[f] * Unit(f)
             /\ \/ Asked(w, f) * Unit(f) < -(2^(Width - 1))
                \/ /\ Asked(w, f) \in 1..AtLeast[f] - 1
                   /\ s.value[f] = Asked(w, f) * Unit(f)
                \/ s.value[f] \in AtLeast[f] * Unit(f)..AtMost[f] * Unit(f)
  <1>1. Settings(Configured(w)).value[f] = Effective(f, Asked(w, f))
    BY ConfiguredInt DEF Settings
  <1>2. Settings(Configured(w)).EnableJitter \in BOOLEAN
    BY ConfiguredInt DEF Settings
  <1> QED
    BY <1>1, <1>2, ConfiguredInt, EffectiveSound, EffectiveInRange

-----------------------------------------------------------------------------
(* Waits *)

(* what the settings of any configuration make a policy *)
PositivePolicy(p) ==
    /\ p.MaxRetries \in 1..AtMost["MaxRetries"]
    /\ p.BaseDelay \in Nat \ {0} /\ p.MaxDelay \in Nat \ {0}
    /\ p.EnableJitter \in BOOLEAN

(* and one where no delay wraps *)
BoundedPolicy(p) ==
    /\ p.BaseDelay \in 1..AtMost["BaseRetryDelayMs"] * Millisecond
    /\ p.MaxDelay \in 1..AtMost["MaxRetryDelaySeconds"] * Second

(* The policy that sound settings lead to. *)
LEMMA PolicyOf ==
  ASSUME NEW w \in Scenario, Startable(w)
  PROVE  LET p == RetryOf(Settings(Configured(w)))
             wraps(f) == Configured(w).int[f] * Unit(f) < -(2^(Width - 1))
         IN  /\ PositivePolicy(p)
             /\ \/ BoundedPolicy(p)
                \/ wraps("BaseRetryDelayMs") \/ wraps("MaxRetryDelaySeconds")
  <1> DEFINE s == Settings(Configured(w))
             p == RetryOf(s)
  <1>1. /\ p.MaxRetries = s.value["MaxRetries"]
        /\ p.BaseDelay = s.value["BaseRetryDelayMs"]
        /\ p.MaxDelay = s.value["MaxRetryDelaySeconds"]
        /\ p.EnableJitter = s.EnableJitter
    BY DEF RetryOf
  <1>2. {"MaxRetries", "BaseRetryDelayMs", "MaxRetryDelaySeconds"}
           \subseteq Setting
    BY DEF Setting
  <1>3. \A f \in Setting : s.value[f] \in Nat \ {0}
    BY SettingsOf
  <1>4. s.EnableJitter \in BOOLEAN
    BY <1>2, SettingsOf
  <1>5. \A f \in Setting : \/ Configured(w).int[f] * Unit(f) < -(2^(Width - 1))
                           \/ s.value[f] \in 1..AtMost[f] * Unit(f)
    BY SettingsOf, ConfiguredInt
  <1> HIDE DEF s
  <1>6. p.MaxRetries \in 1..AtMost["MaxRetries"]
    <2>1. /\ Configured(w).int["MaxRetries"] \in Machine
          /\ 2^(Width - 1) \in Nat /\ Unit("MaxRetries") = 1
          /\ AtMost["MaxRetries"] \in Nat
      BY <1>2, ConfiguredInt, LimitTypes DEF Unit
    <2>2. ~(Configured(w).int["MaxRetries"] * 1 < -(2^(Width - 1)))
      BY <2>1 DEF Machine
    <2>3. s.value["MaxRetries"] \in 1..AtMost["MaxRetries"] * 1
      BY <1>2, <1>5, <2>1, <2>2
    <2> QED
      BY <1>1, <2>1, <2>3
  <1>7. PositivePolicy(p)
    BY <1>1, <1>2, <1>3, <1>4, <1>6 DEF PositivePolicy
  <1>8. /\ Unit("BaseRetryDelayMs") = Millisecond
        /\ Unit("MaxRetryDelaySeconds") = Second
    BY DEF Unit
  <1> QED
    BY <1>1, <1>2, <1>5, <1>7, <1>8 DEF BoundedPolicy, s

(* Within the limits of Validate the shift does not wrap, and what is      *)
(* capped at the maximum is the nominal wait. *)
LEMMA BackoffExact ==
  ASSUME NEW p, BoundedPolicy(p), NEW n \in 1..AtMost["MaxRetries"]
  PROVE  /\ Backoff(p, n) = Nominal(p, n)
         /\ Nominal(p, n) \in Nat \ {0}
         /\ 5 * Nominal(p, n) < 4 * 2^(Width - 1)
         /\ p.BaseDelay \in Nat /\ p.MaxDelay \in Nat
         /\ 2^(Width - 1) \in Nat
  <1> DEFINE half == 2^(Width - 1)
             most == AtMost["BaseRetryDelayMs"] * Millisecond
             top == AtMost["MaxRetries"]
             cap == AtMost["MaxRetryDelaySeconds"] * Second
             b == p.BaseDelay
  <1>1. /\ top \in Nat \ {0} /\ n \in Nat \ {0} /\ n <= top
        /\ most \in Nat /\ cap \in Nat /\ half \in Nat
        /\ most * 2^(top - 1) < half /\ 5 * cap < 4 * half
    <2>1. {"MaxRetries", "BaseRetryDelayMs", "MaxRetryDelaySeconds"}
             \subseteq Setting
      BY DEF Setting
    <2>2. /\ AtMost["MaxRetries"] \in Nat \ {0}
          /\ AtMost["BaseRetryDelayMs"] \in Nat
          /\ AtMost["MaxRetryDelaySeconds"] \in Nat
          /\ half \in Nat
      BY <2>1, LimitTypes
    <2>3. Millisecond \in Nat /\ Second \in Nat
      BY LimitAssumption
    <2>4. most * 2^(top - 1) < half /\ 5 * cap < 4 * half
      BY LimitAssumption
    <2> QED
      BY <2>2, <2>3, <2>4
  <1> HIDE DEF half, most, top, cap
  <1>2. /\ b \in Nat \ {0} /\ b <= most
        /\ p.MaxDelay \in Nat \ {0} /\ p.MaxDelay <= cap
    BY <1>1 DEF BoundedPolicy, most, cap
  <1>3. /\ 2^(n - 1) \in Nat \ {0} /\ 2^(top - 1) \in Nat
        /\ 2^(n - 1) <= 2^(top - 1)
    <2>1. n - 1 \in Nat /\ top - 1 \in Nat /\ n - 1 <= top - 1
      BY <1>1
    <2> QED
      BY <2>1, PowerPositive, PowerMonotone
  <1>4. b * 2^(n - 1) \in Nat \ {0} /\ b * 2^(n - 1) < half
    <2>1. b * 2^(n - 1) <= most * 2^(n - 1)
      BY <1>1, <1>2, <1>3, ProductMonotone
    <2>2. most * 2^(n - 1) \in Nat /\ most * 2^(n - 1) <= most * 2^(top - 1)
      <3>1. /\ 2^(n - 1) * most \in Nat
            /\ 2^(n - 1) * most <= 2^(top - 1) * most
        BY <1>1, <1>3, ProductMonotone
      <3>2. \A x, y \in Nat : x * y = y * x
        OBVIOUS
      <3> QED
        BY <1>1, <1>3, <3>1, <3>2
    <2>3. most * 2^(top - 1) \in Nat
      BY <1>1, <1>3
    <2>4. b * 2^(n - 1) \in Nat \ {0}
      <3>1. \A x, y \in Nat \ {0} : x * y \in Nat \ {0}
        OBVIOUS
      <3> QED
        BY <1>2, <1>3, <3>1
    <2> QED
      BY <1>1, <2>1, <2>2, <2>3, <2>4
  <1>5. Wrapped(b * 2^(n - 1)) = b * 2^(n - 1)
    <2>1. b * 2^(n - 1) \in Machine
      BY <1>1, <1>4 DEF Machine, half
    <2> QED
      BY <2>1, WrappedExact
  <1>6. Backoff(p, n) = Nominal(p, n)
    BY <1>2, <1>4, <1>5 DEF Backoff, Nominal, Smaller
  <1>7. Nominal(p, n) \in Nat \ {0} /\ Nominal(p, n) <= p.MaxDelay
    BY <1>2, <1>4 DEF Nominal, Smaller
  <1>8. 5 * Nominal(p, n) < 4 * half
    BY <1>1, <1>2, <1>7
  <1> QED
    BY <1>1, <1>2, <1>6, <1>7, <1>8 DEF half

(* a wait d near the nominal one N *)
Near(p, N, d) == \/ 3 * N <= 4 * d /\ 4 * d <= 5 * N
                 \/ d = p.BaseDelay /\ d > N - N \div 4

(* Every delay of a policy within the limits is near the nominal one. *)
LEMMA DelayNear ==
  ASSUME NEW p, BoundedPolicy(p), NEW n \in 1..AtMost["MaxRetries"],
         NEW d \in NextDelay(p, n)
  PROVE  /\ d \in Int
         /\ IF p.EnableJitter THEN Near(p, Nominal(p, n), d)
                              ELSE d = Nominal(p, n)
  <1> DEFINE N == Nominal(p, n)
             half == 2^(Width - 1)
  <1>1. /\ Backoff(p, n) = N /\ N \in Nat \ {0} /\ 5 * N < 4 * half
        /\ p.BaseDelay \in Nat /\ half \in Nat
    BY BackoffExact
  <1>2. n \in Int /\ n > 0
    <2>1. AtMost["MaxRetries"] \in Nat
      BY LimitTypes DEF Setting
    <2> QED
      BY <2>1
  <1> HIDE DEF N, half
  <1>3. d \in IF p.EnableJitter /\ Variance(N) > 0 THEN Jittered(p, N) ELSE {N}
    BY <1>1, <1>2 DEF NextDelay
  <1>4. CASE d = N
    BY <1>1, <1>4 DEF Near, N
  <1>5. CASE p.EnableJitter /\ d \in Jittered(p, N)
    <2>1. PICK j \in -Variance(N) .. Variance(N) - 1 :
             d = IF Wrapped(N + j) < p.BaseDelay THEN p.BaseDelay
                 ELSE Wrapped(N + j)
      BY <1>5 DEF Jittered
    <2>2. /\ j \in Int /\ -(N \div 4) <= j /\ j < N \div 4
          /\ N \div 4 \in Nat /\ 4 * (N \div 4) <= N
      BY <1>1 DEF Variance
    <2>3. Wrapped(N + j) = N + j
      <3>1. N + j \in Machine
        BY <1>1, <2>2 DEF Machine, half
      <3> QED
        BY <3>1, WrappedExact
    <2>4. CASE N + j < p.BaseDelay
      BY <1>1, <1>5, <2>1, <2>2, <2>3, <2>4 DEF Near, N
    <2>5. CASE ~(N + j < p.BaseDelay)
      <3>1. d = N + j
        BY <2>1, <2>3, <2>5
      <3>2. 3 * N <= 4 * (N + j) /\ 4 * (N + j) <= 5 * N
        BY <1>1, <2>2
      <3> QED
        BY <1>1, <1>5, <2>2, <3>1, <3>2 DEF Near, N
    <2> QED
      BY <2>4, <2>5
  <1> QED
    BY <1>3, <1>4, <1>5

(* Whatever wraps, a wait is an integer. *)
LEMMA DelayType ==
  ASSUME NEW p, PositivePolicy(p), NEW n \in Nat \ {0},
         NEW d \in NextDelay(p, n)
  PROVE  d \in Int
  <1>1. p.BaseDelay \in Nat /\ p.MaxDelay \in Nat
    BY DEF PositivePolicy
  <1>2. Backoff(p, n) \in Int
    <2>1. 2^(n - 1) \in Nat
      BY PowerPositive
    <2>2. p.BaseDelay * 2^(n - 1) \in Int
      BY <1>1, <2>1
    <2>3. Wrapped(p.BaseDelay * 2^(n - 1)) \in Int
      BY <2>2, WrappedType
    <2> QED
      BY <1>1, <2>3 DEF Backoff
  <1>3. d = Backoff(p, n) \/ d \in Jittered(p, Backoff(p, n))
    BY DEF NextDelay
  <1>4. CASE d \in Jittered(p, Backoff(p, n))
    <2> DEFINE N == Backoff(p, n)
    <2>1. PICK j \in -Variance(N) .. Variance(N) - 1 :
             d = IF Wrapped(N + j) < p.BaseDelay THEN p.BaseDelay
                 ELSE Wrapped(N + j)
      BY <1>4 DEF Jittered
    <2>2. N + j \in Int
      BY <1>2, <2>1 DEF Variance
    <2>3. Wrapped(N + j) \in Int
      BY <2>2, WrappedType
    <2> QED
      BY <1>1, <2>1, <2>3
  <1> QED
    BY <1>2, <1>3, <1>4

(* Doubling what is capped and capping again is the same as capping the    *)
(* double. *)
LEMMA NominalStep ==
  ASSUME NEW p, PositivePolicy(p), NEW n \in Nat
  PROVE  /\ Nominal(p, n + 1) =
               Smaller(p.MaxDelay, IF n = 0 THEN p.BaseDelay
                                   ELSE 2 * Nominal(p, n))
         /\ Nominal(p, n + 1) \in Nat \ {0}
  <1>1. p.BaseDelay \in Nat \ {0} /\ p.MaxDelay \in Nat \ {0}
    BY DEF PositivePolicy
  <1>2. (n + 1) - 1 = n
    OBVIOUS
  <1>3. p.BaseDelay * 2^n \in Nat \ {0}
    <2>1. \A x, y \in Nat \ {0} : x * y \in Nat \ {0}
      OBVIOUS
    <2> QED
      BY <1>1, <2>1, PowerPositive
  <1>4. CASE n = 0
    <2>1. p.BaseDelay * 2^n = p.BaseDelay
      BY <1>1, <1>4
    <2> QED
      BY <1>1, <1>2, <1>4, <2>1 DEF Nominal, Smaller
  <1>5. CASE n # 0
    <2>1. n - 1 \in Nat /\ (n - 1) + 1 = n
      BY <1>5
    <2>2. 2^n = 2 * 2^(n - 1) /\ 2^(n - 1) \in Nat
      BY <2>1, Doubling, PowerPositive
    <2>3. p.BaseDelay * 2^n = 2 * (p.BaseDelay * 2^(n - 1))
      <3>1. \A x, y \in Nat : x * (2 * y) = 2 * (x * y)
        OBVIOUS
      <3> QED
        BY <1>1, <2>2, <3>1
    <2>4. p.BaseDelay * 2^(n - 1) \in Nat
      BY <1>1, <2>2
    <2>5. \A m, x \in Nat : Smaller(m, 2 * x) = Smaller(m, 2 * Smaller(m, x))
      BY DEF Smaller
    <2>6. Smaller(p.MaxDelay, p.BaseDelay * 2^n)
             = Smaller(p.MaxDelay, 2 * Nominal(p, n))
      BY <1>1, <2>3, <2>4, <2>5 DEF Nominal
    <2> QED
      BY <1>1, <1>2, <1>3, <1>5, <2>6 DEF Nominal, Smaller
  <1> QED
    BY <1>1, <1>2, <1>3, <1>4, <1>5 DEF Nominal, Smaller

-----------------------------------------------------------------------------
(* Induction and what is built by it: the flattening of a sequence *)

(* Every set of natural numbers that has one has a least one, since there  *)
(* is no infinite descent among the finite intervals from 0. *)
LEMMA Least ==
  ASSUME NEW T \in SUBSET Nat, T # {}
  PROVE  \E x \in T : \A y \in T : x <= y
  <1> DEFINE R == StrictSubsetOrdering(Nat)
             I == {0..x : x \in T}
  <1>1. I \subseteq FiniteSubsetsOf(Nat) /\ I # {}
    <2>1. ASSUME NEW x \in T
          PROVE  0..x \in SUBSET Nat /\ IsFiniteSet(0..x)
      BY FS_Interval
    <2> QED
      BY <2>1 DEF FiniteSubsetsOf
  <1>2. IsWellFoundedOn(R, FiniteSubsetsOf(Nat))
    BY FS_StrictSubsetOrderingWellFounded
  <1> HIDE DEF R, I
  <1>3. PICK A \in I : \A B \in I : ~(<<B, A>> \in R)
    BY <1>1, <1>2, WFMin
  <1>4. PICK x \in T : A = 0..x
    BY DEF I
  <1>5. ASSUME NEW y \in T
        PROVE  x <= y
    <2> SUFFICES ASSUME y < x
                 PROVE  FALSE
      OBVIOUS
    <2>1. /\ 0..y \in SUBSET Nat /\ 0..x \in SUBSET Nat
          /\ 0..y \subseteq 0..x
          /\ x \in 0..x /\ x \notin 0..y
      OBVIOUS
    <2>2. <<0..y, 0..x>> \in R
      BY <2>1 DEF R, StrictSubsetOrdering
    <2>3. 0..y \in I
      BY DEF I
    <2> QED
      BY <1>3, <1>4, <2>2, <2>3
  <1> QED
    BY <1>5

(* Induction, for the members of a set. *)
LEMMA Induction ==
  ASSUME NEW T \in SUBSET Nat, 0 \in T, \A n \in T : n + 1 \in T
  PROVE  T = Nat
  <1> SUFFICES ASSUME Nat \ T # {}
               PROVE  FALSE
    OBVIOUS
  <1>1. PICK x \in Nat \ T : \A y \in Nat \ T : x <= y
    BY Least
  <1>2. x # 0 /\ x - 1 \in Nat /\ (x - 1) + 1 = x
    BY <1>1
  <1>3. x - 1 \in T
    BY <1>1, <1>2
  <1> QED
    BY <1>1, <1>2, <1>3

(* What FlattenSeq is defined by exists, for any number of parts. *)
LEMMA FlattenDefined ==
  ASSUME NEW s
  PROVE  \A k \in Nat : \E f :
            f = [i \in 1..k |-> IF i = 1 THEN s[i] ELSE f[i - 1] \o s[i]]
  <1> DEFINE Built(k, f) ==
                f = [i \in 1..k |-> IF i = 1 THEN s[i] ELSE f[i - 1] \o s[i]]
             T == {k \in Nat : \E f : Built(k, f)}
  <1>1. 0 \in T
    <2>1. Built(0, [i \in 1..0 |-> 0])
      OBVIOUS
    <2> QED
      BY <2>1
  <1>2. ASSUME NEW k \in T
        PROVE  k + 1 \in T
    <2>1. PICK f : Built(k, f)
      BY <1>2
    <2> DEFINE g == [i \in 1..k+1 |->
                        IF i <= k THEN f[i]
                        ELSE IF i = 1 THEN s[i] ELSE f[i - 1] \o s[i]]
    <2>2. ASSUME NEW i \in 1..k+1
          PROVE  g[i] = IF i = 1 THEN s[i] ELSE g[i - 1] \o s[i]
      <3>0. k \in Nat
        OBVIOUS
      <3>1. i # 1 => g[i - 1] = f[i - 1]
        BY <3>0
      <3>2. i <= k => f[i] = IF i = 1 THEN s[i] ELSE f[i - 1] \o s[i]
        <4> SUFFICES ASSUME i <= k
                     PROVE  f[i] = IF i = 1 THEN s[i] ELSE f[i - 1] \o s[i]
          OBVIOUS
        <4>1. i \in 1..k
          BY <3>0
        <4> QED
          BY <2>1, <4>1
      <3> QED
        BY <3>0, <3>1, <3>2
    <2>3. Built(k + 1, g)
      BY <2>2
    <2> HIDE DEF Built, g
    <2> QED
      BY <2>3
  <1> HIDE DEF T
  <1>3. T = Nat
    <2>1. T \in SUBSET Nat
      BY DEF T
    <2> QED
      BY <1>1, <1>2, <2>1, Induction
  <1> QED
    BY <1>3 DEF T

(* So FlattenSeq is the last of the sequences that recursion builds. *)
LEMMA FlattenSteps ==
  ASSUME NEW s, Len(s) \in Nat \ {0}
  PROVE  \E f : /\ f = [i \in 1..Len(s) |->
                           IF i = 1 THEN s[i] ELSE f[i - 1] \o s[i]]
                /\ FlattenSeq(s) = f[Len(s)]
  <1> DEFINE f == CHOOSE f : f = [i \in 1..Len(s) |->
                           IF i = 1 THEN s[i] ELSE f[i - 1] \o s[i]]
  <1>1. f = [i \in 1..Len(s) |-> IF i = 1 THEN s[i] ELSE f[i - 1] \o s[i]]
    BY FlattenDefined
  <1>2. FlattenSeq(s) = f[Len(s)]
    BY DEF FlattenSeq
  <1> QED
    BY <1>1, <1>2

(* c holds all that a and b do and begins as they do. *)
Joins(c, a, b) ==
    /\ Range(a) \subseteq Range(c) /\ Range(b) \subseteq Range(c)
    /\ c # <<>> => IF a # <<>> THEN c[1] = a[1] ELSE b # <<>> /\ c[1] = b[1]

(* What \o joins. *)
LEMMA Concatenated ==
  ASSUME NEW S, NEW a \in Seq(S), NEW b \in Seq(S)
  PROVE  a \o b \in Seq(S) /\ Joins(a \o b, a, b)
  <1>1. ASSUME NEW i \in DOMAIN a
        PROVE  i \in DOMAIN (a \o b) /\ (a \o b)[i] = a[i]
    OBVIOUS
  <1>2. ASSUME NEW i \in DOMAIN b
        PROVE  i + Len(a) \in DOMAIN (a \o b) /\ (a \o b)[i + Len(a)] = b[i]
    OBVIOUS
  <1>3. a \o b \in Seq(S)
    OBVIOUS
  <1>4. a \o b # <<>> => IF a # <<>> THEN (a \o b)[1] = a[1]
                         ELSE b # <<>> /\ (a \o b)[1] = b[1]
    <2>1. CASE a # <<>>
      BY <2>1
    <2>2. CASE a = <<>>
      <3>1. a \o b = b
        BY <2>2
      <3> QED
        BY <2>2, <3>1
    <2> QED
      BY <2>1, <2>2
  <1>5. ASSUME NEW v \in Range(a)
        PROVE  v \in Range(a \o b)
    <2>1. PICK i \in DOMAIN a : v = a[i]
      BY DEF Range
    <2> QED
      BY <1>1, <2>1 DEF Range
  <1>6. ASSUME NEW v \in Range(b)
        PROVE  v \in Range(a \o b)
    <2>1. PICK i \in DOMAIN b : v = b[i]
      BY DEF Range
    <2> QED
      BY <1>2, <2>1 DEF Range
  <1> QED
    BY <1>3, <1>4, <1>5, <1>6 DEF Joins

(* Flattening keeps every element of every part, and what comes first      *)
(* comes first in a part. *)
LEMMA Flattened ==
  ASSUME NEW S, NEW s \in Seq(Seq(S))
  PROVE  /\ FlattenSeq(s) \in Seq(S)
         /\ \A j \in DOMAIN s : Range(s[j]) \subseteq Range(FlattenSeq(s))
         /\ FlattenSeq(s) # <<>> =>
               \E j \in DOMAIN s : s[j] # <<>> /\ FlattenSeq(s)[1] = s[j][1]
  <1>1. CASE Len(s) = 0
    <2>1. FlattenSeq(s) = s /\ s = <<>>
      BY <1>1 DEF FlattenSeq
    <2> QED
      BY <2>1
  <1>2. CASE Len(s) # 0
    <2>1. Len(s) \in Nat \ {0} /\ DOMAIN s = 1..Len(s)
      BY <1>2
    <2>2. PICK f : /\ f = [i \in 1..Len(s) |->
                             IF i = 1 THEN s[i] ELSE f[i - 1] \o s[i]]
                   /\ FlattenSeq(s) = f[Len(s)]
      BY <2>1, FlattenSteps
    <2> DEFINE Good(k) ==
                  /\ f[k] \in Seq(S)
                  /\ \A j \in 1..k : Range(s[j]) \subseteq Range(f[k])
                  /\ f[k] # <<>> =>
                        \E j \in 1..k : s[j] # <<>> /\ f[k][1] = s[j][1]
               T == {k \in Nat : k \in 1..Len(s) => Good(k)}
    <2>3. ASSUME NEW k \in T
          PROVE  k + 1 \in T
      <3> SUFFICES ASSUME k + 1 \in 1..Len(s)
                   PROVE  Good(k + 1)
        OBVIOUS
      <3>0. k \in Nat /\ s[k + 1] \in Seq(S)
        BY <2>1
      <3>1. CASE k = 0
        <4>1. f[1] = s[1] /\ k + 1 = 1
          BY <2>1, <2>2, <3>1
        <4>2. 1..1 = {1}
          OBVIOUS
        <4> HIDE <2>2
        <4> QED
          BY <3>0, <4>1, <4>2
      <3>2. CASE k # 0
        <4>1. f[k + 1] = f[k] \o s[k + 1]
          <5>1. k + 1 # 1 /\ (k + 1) - 1 = k
            BY <3>0, <3>2
          <5> QED
            BY <2>2, <5>1
        <4>2. Good(k)
          BY <2>1, <3>0, <3>2
        <4>3. /\ f[k + 1] \in Seq(S)
              /\ Range(f[k]) \subseteq Range(f[k + 1])
              /\ Range(s[k + 1]) \subseteq Range(f[k + 1])
              /\ f[k + 1] # <<>> => IF f[k] # <<>> THEN f[k + 1][1] = f[k][1]
                                    ELSE /\ s[k + 1] # <<>>
                                         /\ f[k + 1][1] = s[k + 1][1]
          <5> DEFINE a == f[k]
                     b == s[k + 1]
          <5>1. a \in Seq(S) /\ b \in Seq(S)
            BY <3>0, <4>2
          <5>2. f[k + 1] = a \o b
            BY <4>1
          <5> HIDE DEF a, b
          <5>3. a \o b \in Seq(S) /\ Joins(a \o b, a, b)
            BY <5>1, Concatenated
          <5> QED
            BY <5>2, <5>3 DEF a, b, Joins
        <4>4. \A j \in 1..k+1 : j = k + 1 \/ j \in 1..k
          BY <3>0
        <4>5. \A j \in 1..k+1 : Range(s[j]) \subseteq Range(f[k + 1])
          BY <4>2, <4>3, <4>4
        <4>6. f[k + 1] # <<>> =>
                 \E j \in 1..k+1 : s[j] # <<>> /\ f[k + 1][1] = s[j][1]
          <5>1. 1..k \subseteq 1..k+1 /\ k + 1 \in 1..k+1
            BY <3>0
          <5> QED
            BY <4>2, <4>3, <5>1
        <4> QED
          BY <4>3, <4>5, <4>6
      <3> QED
        BY <3>1, <3>2
    <2>4. 0 \in T
      OBVIOUS
    <2>5. T = Nat
      <3>1. T \in SUBSET Nat
        OBVIOUS
      <3> HIDE DEF T
      <3> QED
        BY <2>3, <2>4, <3>1, Induction
    <2>6. Good(Len(s))
      <3>1. Len(s) \in T
        <4> HIDE DEF T
        <4> QED
          BY <2>1, <2>5
      <3> HIDE DEF Good
      <3> QED
        BY <2>1, <3>1
    <2> QED
      BY <2>1, <2>2, <2>6
  <1> QED
    BY <1>1, <1>2

(* A finite set can be put in order, and any order has all its elements. *)
LEMMA Ordered ==
  ASSUME NEW S, IsFiniteSet(S)
  PROVE  /\ SetToSeqs(S) # {}
         /\ \A keys \in SetToSeqs(S) :
               /\ keys \in Seq(S)
               /\ \A x \in S : \E i \in DOMAIN keys : keys[i] = x
  <1> DEFINE n == Cardinality(S)
  <1>1. n \in Nat /\ ExistsBijection(1..n, S)
    BY FS_CardinalityType
  <1> HIDE DEF n
  <1>2. SetToSeqs(S) = {f \in [1..n -> S] :
                           \A i, j \in 1..n : i # j => f[i] # f[j]}
    BY DEF SetToSeqs, n
  <1>3. SetToSeqs(S) # {}
    <2>1. PICK f : f \in Bijection(1..n, S)
      BY <1>1 DEF ExistsBijection
    <2>2. f \in SetToSeqs(S)
      BY <1>2, <2>1 DEF Bijection, Injection, IsInjective
    <2> QED
      BY <2>2
  <1>4. ASSUME NEW keys \in SetToSeqs(S)
        PROVE  /\ keys \in Seq(S)
               /\ \A x \in S : \E i \in DOMAIN keys : keys[i] = x
    <2>1. keys \in [1..n -> S] /\ \A i, j \in 1..n : i # j => keys[i] # keys[j]
      BY <1>2
    <2>2. keys \in Injection(1..n, S)
      BY <2>1 DEF Injection, IsInjective
    <2>3. IsFiniteSet(1..n) /\ Cardinality(1..n) = n
      BY <1>1, FS_Interval
    <2>4. keys \in Surjection(1..n, S)
      BY <2>2, <2>3, FS_Injection DEF n
    <2>5. keys \in Seq(S)
      BY <1>1, <2>1
    <2> QED
      BY <2>1, <2>4, <2>5 DEF Surjection
  <1> QED
    BY <1>3, <1>4

-----------------------------------------------------------------------------
(* Content *)

(* the values l of a name in a map: all there are, in some order of keys *)
AllValues(map, name, l) ==
    /\ \A key \in Spellings(map, name) : Range(map[key]) \subseteq Range(l)
    /\ l # <<>> => \E key \in Spellings(map, name) :
                      map[key] # <<>> /\ l[1] = map[key][1]

(* The values mergeHeaders may collect under a name are all that were given. *)
LEMMA ValuesKept ==
  ASSUME NEW map, IsFiniteSet(DOMAIN map), map \in [DOMAIN map -> Seq(STRING)],
         NEW name
  PROVE  /\ Values(map, name) # {}
         /\ \A l \in Values(map, name) : AllValues(map, name, l)
  <1> DEFINE keysOf == Spellings(map, name)
             part(keys) == [i \in DOMAIN keys |-> map[keys[i]]]
  <1>1. keysOf \subseteq DOMAIN map
    BY DEF Spellings
  <1>2. IsFiniteSet(keysOf)
    BY <1>1, FS_Subset
  <1> HIDE DEF keysOf
  <1>3. Values(map, name) =
           {FlattenSeq(part(keys)) : keys \in SetToSeqs(keysOf)}
    BY DEF Values, keysOf
  <1>4. ASSUME NEW keys \in SetToSeqs(keysOf)
        PROVE  AllValues(map, name, FlattenSeq(part(keys)))
    <2>1. /\ keys \in Seq(keysOf)
          /\ \A x \in keysOf : \E i \in DOMAIN keys : keys[i] = x
      BY <1>2, Ordered
    <2> DEFINE s == part(keys)
    <2>2. s \in Seq(Seq(STRING)) /\ DOMAIN s = DOMAIN keys
      <3>1. DOMAIN keys = 1..Len(keys) /\ Len(keys) \in Nat
        BY <2>1
      <3>2. \A i \in 1..Len(keys) : map[keys[i]] \in Seq(STRING)
        BY <1>1, <2>1
      <3> QED
        BY <3>1, <3>2
    <2>3. \A i \in DOMAIN keys : keys[i] \in keysOf /\ s[i] = map[keys[i]]
      BY <2>1
    <2> HIDE DEF s
    <2>4. /\ \A j \in DOMAIN s : Range(s[j]) \subseteq Range(FlattenSeq(s))
          /\ FlattenSeq(s) # <<>> =>
                \E j \in DOMAIN s : s[j] # <<>> /\ FlattenSeq(s)[1] = s[j][1]
      BY <2>2, Flattened
    <2>5. AllValues(map, name, FlattenSeq(s))
      <3>1. ASSUME NEW key \in keysOf
            PROVE  Range(map[key]) \subseteq Range(FlattenSeq(s))
        <4>1. PICK i \in DOMAIN keys : keys[i] = key
          BY <2>1
        <4> QED
          BY <2>2, <2>3, <2>4, <4>1
      <3>2. ASSUME FlattenSeq(s) # <<>>
            PROVE  \E key \in keysOf :
                      map[key] # <<>> /\ FlattenSeq(s)[1] = map[key][1]
        BY <2>2, <2>3, <2>4, <3>2
      <3> QED
        BY <3>1, <3>2 DEF AllValues, keysOf
    <2> QED
      BY <2>5 DEF s
  <1>5. SetToSeqs(keysOf) # {}
    BY <1>2, Ordered
  <1> HIDE DEF part
  <1> QED
    BY <1>3, <1>4, <1>5

(* The headers h that mergeHeaders may make of an event: what was given is *)
(* there, the values that come first among it. *)
LEMMA Merged ==
  ASSUME NEW e \in Event, NEW h \in mergeHeaders(e)
  PROVE  /\ \A key \in DOMAIN e.MultiValueHeaders :
               \A v \in Range(e.MultiValueHeaders[key]) :
                  key[1] \in DOMAIN h /\ v \in Range(h[key[1]])
         /\ \A key \in DOMAIN e.Headers :
               Values(e.MultiValueHeaders, key[1]) = {<<>>} =>
                  /\ key[1] \in DOMAIN h
                  /\ \E k \in Spellings(e.Headers, key[1]) :
                        h[key[1]] = <<e.Headers[k]>>
         /\ \A name \in DOMAIN h :
               h[name] # <<>> /\ h[name][1] \in FirstValues(e, name)
  <1> DEFINE M == e.MultiValueHeaders
             H == e.Headers
             multi(name) == Values(M, name) \ {<<>>}
             single(name) == {<<H[key]>> : key \in Spellings(H, name)}
             choices(name) == IF multi(name) # {} THEN multi(name)
                                                  ELSE single(name)
             names == {name \in {key[1] : key \in DOMAIN M \cup DOMAIN H} :
                          choices(name) # {}}
  <1>1. DOMAIN h = names /\ \A name \in names : h[name] \in choices(name)
    BY DEF mergeHeaders
  <1>2. IsFiniteSet(DOMAIN M) /\ M \in [DOMAIN M -> Seq(STRING)]
    BY EventAssumption
  <1> HIDE DEF M, H
  <1>3. \A name : /\ Values(M, name) # {}
                  /\ \A l \in Values(M, name) : AllValues(M, name, l)
    BY <1>2, ValuesKept
  <1>4. ASSUME NEW key \in DOMAIN M, NEW v \in Range(M[key])
        PROVE  key[1] \in DOMAIN h /\ v \in Range(h[key[1]])
    <2>1. key \in Spellings(M, key[1])
      BY DEF Spellings
    <2>2. \A l \in Values(M, key[1]) : v \in Range(l)
      BY <1>3, <2>1 DEF AllValues
    <2>3. v \notin Range(<<>>)
      BY DEF Range
    <2>4. multi(key[1]) # {}
      BY <1>3, <2>2, <2>3
    <2>5. key[1] \in names
      BY <2>4
    <2>6. h[key[1]] \in Values(M, key[1])
      BY <1>1, <2>4, <2>5
    <2> QED
      BY <1>1, <2>2, <2>5, <2>6
  <1>5. ASSUME NEW key \in DOMAIN H, Values(M, key[1]) = {<<>>}
        PROVE  /\ key[1] \in DOMAIN h
               /\ \E k \in Spellings(H, key[1]) : h[key[1]] = <<H[k]>>
    <2>1. choices(key[1]) = single(key[1])
      BY <1>5
    <2>2. key \in Spellings(H, key[1])
      BY DEF Spellings
    <2>3. key[1] \in names
      <3>1. <<H[key]>> \in choices(key[1])
        BY <2>1, <2>2
      <3> HIDE DEF choices
      <3> QED
        BY <3>1
    <2> QED
      BY <1>1, <2>1, <2>3
  <1>6. ASSUME NEW name \in DOMAIN h
        PROVE  h[name] # <<>> /\ h[name][1] \in FirstValues(e, name)
    <2> DEFINE lists == {M[key] : key \in Spellings(M, name)} \ {<<>>}
    <2>1. FirstValues(e, name) =
             IF lists # {} THEN {values[1] : values \in lists}
             ELSE {H[key] : key \in Spellings(H, name)}
      BY DEF FirstValues, M, H
    <2>2. h[name] \in choices(name)
      BY <1>1
    <2>3. CASE multi(name) # {}
      <3>1. h[name] \in Values(M, name) /\ h[name] # <<>>
        BY <2>2, <2>3
      <3>2. PICK key \in Spellings(M, name) :
               M[key] # <<>> /\ h[name][1] = M[key][1]
        BY <1>3, <3>1 DEF AllValues
      <3>3. M[key] \in lists
        BY <3>2
      <3> QED
        BY <2>1, <3>1, <3>2, <3>3
    <2>4. CASE multi(name) = {}
      <3>1. PICK k \in Spellings(H, name) : h[name] = <<H[k]>>
        BY <2>2, <2>4
      <3>2. lists = {}
        <4> SUFFICES ASSUME NEW key \in Spellings(M, name), M[key] # <<>>
                     PROVE  FALSE
          OBVIOUS
        <4>1. PICK l \in Values(M, name) : TRUE
          BY <1>3
        <4>2. l = <<>> /\ Range(M[key]) \subseteq Range(l)
          BY <1>3, <2>4 DEF AllValues
        <4>3. M[key] \in Seq(STRING)
          BY <1>2 DEF Spellings
        <4>4. M[key][1] \in Range(M[key])
          BY <4>3 DEF Range
        <4>5. Range(<<>>) = {}
          BY DEF Range
        <4> QED
          BY <4>2, <4>4, <4>5
      <3>3. <<H[k]>> # <<>> /\ <<H[k]>>[1] = H[k]
        OBVIOUS
      <3>4. FirstValues(e, name) = {H[key] : key \in Spellings(H, name)}
        BY <2>1, <3>2
      <3> QED
        BY <3>1, <3>3, <3>4
    <2> QED
      BY <2>3, <2>4
  <1> QED
    BY <1>4, <1>5, <1>6 DEF M, H

(* g has the values h has for a name. *)
Keeps(g, h, name) == name \in DOMAIN g /\ g[name] = h[name]

(* Headers have the values they have. *)
LEMMA KeepsItself ==
  ASSUME NEW h, NEW name \in DOMAIN h
  PROVE  Keeps(h, h, name)
  BY DEF Keeps

(* Setting one header leaves the others. *)
LEMMA SetKeeps ==
  ASSUME NEW g, NEW h, NEW name, Keeps(g, h, name),
         NEW other, other # name, NEW value
  PROVE  Keeps(Set(g, other, value), h, name)
  BY DEF Set, Keeps

(* A header that is not empty keeps its values where a default is set. *)
LEMMA SetIfEmptyKeeps ==
  ASSUME NEW g, NEW h, NEW name, Keeps(g, h, name), NEW other, NEW value,
         other = name => h[name] # <<>> /\ h[name][1] # ""
  PROVE  Keeps(SetIfEmpty(g, other, value), h, name)
  <1>1. CASE other = name
    BY <1>1 DEF SetIfEmpty, Get, Keeps
  <1>2. CASE other # name
    BY <1>2, SetKeeps DEF SetIfEmpty
  <1> QED
    BY <1>1, <1>2

(* What the bridge adds about the origin of an event replaces nothing but  *)
(* its own headers. *)
LEMMA OriginKeeps ==
  ASSUME NEW h, NEW e, NEW name \in DOMAIN h, name \notin Ours,
         name = "Content-Type" => h[name] # <<>> /\ h[name][1] # ""
  PROVE  Keeps(WithOrigin(h, e), h, name)
  <1> DEFINE typed == SetIfEmpty(h, "Content-Type", "application/json")
             path == IF e.Path = "" THEN typed
                     ELSE Set(typed, "X-Original-Path", e.Path)
             query == IF buildRawQuery(e) = Empty THEN path
                      ELSE Set(path, "X-Original-Raw-Query", buildRawQuery(e))
             group == IF e.TargetGroupArn = "" THEN query
                      ELSE Set(query, "X-Original-Target-Group-Arn",
                               e.TargetGroupArn)
             flag == IF e.IsBase64Encoded THEN "true" ELSE "false"
  <1>0. \A other \in Ours : other # name
    OBVIOUS
  <1>1. Keeps(typed, h, name)
    BY KeepsItself, SetIfEmptyKeeps
  <1> HIDE DEF typed
  <1>2. Keeps(path, h, name)
    <2>1. "X-Original-Path" # name
      BY <1>0 DEF Ours
    <2>2. Keeps(Set(typed, "X-Original-Path", e.Path), h, name)
      BY <1>1, <2>1, SetKeeps
    <2> QED
      BY <1>1, <2>2 DEF path
  <1> HIDE DEF path
  <1>3. Keeps(query, h, name)
    <2>1. "X-Original-Raw-Query" # name
      BY <1>0 DEF Ours
    <2>2. Keeps(Set(path, "X-Original-Raw-Query", buildRawQuery(e)), h, name)
      BY <1>2, <2>1, SetKeeps
    <2> QED
      BY <1>2, <2>2 DEF query
  <1> HIDE DEF query
  <1>4. Keeps(group, h, name)
    <2>1. "X-Original-Target-Group-Arn" # name
      BY <1>0 DEF Ours
    <2>2. Keeps(Set(query, "X-Original-Target-Group-Arn", e.TargetGroupArn),
                h, name)
      BY <1>3, <2>1, SetKeeps
    <2> QED
      BY <1>3, <2>2 DEF group
  <1> HIDE DEF group
  <1>5. Keeps(Set(group, "X-Original-Base64-Encoded", flag), h, name)
    <2>1. "X-Original-Base64-Encoded" # name
      BY <1>0 DEF Ours
    <2> QED
      BY <1>4, <2>1, SetKeeps
  <1>6. WithOrigin(h, e) = Set(group, "X-Original-Base64-Encoded", flag)
    BY DEF WithOrigin, typed, path, query, group
  <1> QED
    BY <1>5, <1>6

(* Queries are given in two forms, and both are kept. *)
LEMMA QueryIsKept ==
  ASSUME NEW e \in Event
  PROVE  QueryKept(e, buildRawQuery(e))
  <1> DEFINE M == e.MultiValueQuery
             multi == {key \in DOMAIN M : M[key] # <<>>}
             q == buildRawQuery(e)
  <1>1. q = [key \in multi \cup DOMAIN e.Query |->
                IF key \in multi THEN M[key] ELSE <<e.Query[key]>>]
    BY DEF buildRawQuery
  <1>2. ASSUME NEW key \in DOMAIN M, NEW v \in Range(M[key])
        PROVE  v \in Range(q[key])
    <2>1. M[key] # <<>>
      <3>1. Range(<<>>) = {}
        BY DEF Range
      <3> QED
        BY <3>1
    <2>2. key \in multi
      BY <2>1
    <2>3. q[key] = M[key]
      BY <1>1, <2>2
    <2> QED
      BY <2>3
  <1>3. \A key \in DOMAIN e.Query : key \in DOMAIN q
    BY <1>1
  <1> QED
    BY <1>2, <1>3 DEF QueryKept

(* The headers of the request that is sent hold those of the event. *)
LEMMA HeadersAreKept ==
  ASSUME NEW e \in Event, NEW h \in mergeHeaders(e), NEW u, NEW p,
         p.headers = WithOrigin(h, e)
  PROVE  HeadersKept(e, newPreparedRequest(u, p, "new").headers)
  <1> DEFINE origin == p.headers
             typed == SetIfEmpty(origin, "Content-Type", "application/json")
             named == SetIfEmpty(typed, "User-Agent", "lambda-bridge/1.0")
             g == Set(named, "X-Request-Id", "new")
  <1>1. newPreparedRequest(u, p, "new").headers = g
    BY DEF newPreparedRequest
  <1>2. ASSUME NEW name \in DOMAIN h, name \notin Replaced(e)
        PROVE  Keeps(g, h, name)
    <2>1. name \notin Ours
      BY <1>2 DEF Replaced
    <2>2. h[name] # <<>>
      BY Merged
    <2>3. name \in {"Content-Type", "User-Agent"} => h[name][1] # ""
      <3>1. name \in {"Content-Type", "User-Agent"} =>
               "" \notin FirstValues(e, name)
        BY <1>2 DEF Replaced
      <3>2. h[name][1] \in FirstValues(e, name)
        BY Merged
      <3> QED
        BY <3>1, <3>2
    <2>4. Keeps(origin, h, name)
      BY <2>1, <2>2, <2>3, OriginKeeps
    <2> HIDE DEF origin
    <2>5. Keeps(typed, h, name)
      BY <2>2, <2>3, <2>4, SetIfEmptyKeeps
    <2> HIDE DEF typed
    <2>6. Keeps(named, h, name)
      BY <2>2, <2>3, <2>5, SetIfEmptyKeeps
    <2> HIDE DEF named
    <2> QED
      BY <2>1, <2>6, SetKeeps DEF Ours
  <1> HIDE DEF g
  <1>3. ASSUME NEW key \in DOMAIN e.MultiValueHeaders,
               key[1] \notin Replaced(e),
               NEW v \in Range(e.MultiValueHeaders[key])
        PROVE  v \in Range(g[key[1]])
    <2>1. key[1] \in DOMAIN h /\ v \in Range(h[key[1]])
      BY Merged
    <2> QED
      BY <1>2, <1>3, <2>1 DEF Keeps
  <1>4. ASSUME NEW key \in DOMAIN e.Headers, key[1] \notin Replaced(e),
               Values(e.MultiValueHeaders, key[1]) = {<<>>}
        PROVE  Get(g, key[1]) \in
                  {e.Headers[k] : k \in Spellings(e.Headers, key[1])}
    <2>1. /\ key[1] \in DOMAIN h
          /\ \E k \in Spellings(e.Headers, key[1]) :
                h[key[1]] = <<e.Headers[k]>>
      BY <1>4, Merged
    <2>2. PICK k \in Spellings(e.Headers, key[1]) :
             h[key[1]] = <<e.Headers[k]>>
      BY <2>1
    <2>3. key[1] \in DOMAIN g /\ g[key[1]] = <<e.Headers[k]>>
      BY <1>2, <1>4, <2>1, <2>2 DEF Keeps
    <2>4. Get(g, key[1]) = e.Headers[k]
      BY <2>3 DEF Get
    <2> QED
      BY <2>4
  <1> QED
    BY <1>1, <1>3, <1>4 DEF HeadersKept

(* Whatever event is translated for whatever webhook. *)
LEMMA ContentOf ==
  ASSUME NEW e \in Event, NEW u, NEW p \in newWebhookPayload(e)
  PROVE  Content([event |-> e, webhook |-> u,
                  sent |-> newPreparedRequest(u, p, "new")])
  <1> DEFINE sent == newPreparedRequest(u, p, "new")
  <1>1. PICK h \in mergeHeaders(e) :
           p = IF BodyDecodes(e) /\ Get(h, "X-GitHub-Event") # ""
               THEN [method |-> e.HTTPMethod,
                     body |-> <<"body", extractBody(e)>>,
                     headers |-> WithOrigin(h, e),
                     rawQuery |-> buildRawQuery(e)]
               ELSE [method |-> "POST", body |-> <<"event", e>>,
                     headers |-> defaultHeaders, rawQuery |-> Empty]
    BY DEF newWebhookPayload
  <1>2. /\ sent.body = p.body
        /\ u.parses => sent.url.added = p.rawQuery
    BY DEF newPreparedRequest
  <1>3. CASE BodyDecodes(e) /\ Get(h, "X-GitHub-Event") # ""
    <2>1. /\ p.body = <<"body", extractBody(e)>>
          /\ p.headers = WithOrigin(h, e)
          /\ p.rawQuery = buildRawQuery(e)
      BY <1>1, <1>3
    <2>2. HeadersKept(e, sent.headers)
      BY <2>1, HeadersAreKept
    <2>3. QueryKept(e, buildRawQuery(e))
      BY QueryIsKept
    <2> HIDE DEF sent
    <2>4. sent.body[1] # "event" /\ sent.body[2] = extractBody(e)
      BY <1>2, <2>1
    <2>5. Content([event |-> e, webhook |-> u, sent |-> sent])
      BY <1>2, <1>3, <2>1, <2>2, <2>3, <2>4 DEF Content
    <2> QED
      BY <2>5 DEF sent
  <1>4. CASE ~(BodyDecodes(e) /\ Get(h, "X-GitHub-Event") # "")
    <2>1. p.body = <<"event", e>>
      BY <1>1, <1>4
    <2> HIDE DEF sent
    <2>2. sent.body[1] = "event" /\ sent.body[2] = e
      BY <1>2, <2>1
    <2>3. Content([event |-> e, webhook |-> u, sent |-> sent])
      BY <2>2 DEF Content
    <2> QED
      BY <2>3 DEF sent
  <1> QED
    BY <1>3, <1>4

-----------------------------------------------------------------------------
(* Steps *)

(* The invariant holds when the process starts. *)
LEMMA InitBridge == Init => BridgeInv
  <1> SUFFICES ASSUME Init
               PROVE  BridgeInv
    OBVIOUS
  <1> USE DEF Init
  <1>1. Parts
    BY DEF Parts, Phase, OpenIn
  <1>2. PICK w \in Scenario : world = w
    OBVIOUS
  <1>3. Loaded(w) /\ Created(w)
    BY <1>2 DEF Loaded, Created
  <1>4. Series(w)
    BY DEF Series
  <1>5. CallTypes
    BY DEF CallTypes
  <1>6. WarmTypes
    BY WarmAssumption DEF WarmTypes, WarmInit
  <1>7. Sent
    BY DEF Sent
  <1> QED
    BY <1>1, <1>2, <1>3, <1>4, <1>5, <1>6, <1>7 DEF BridgeInv, Follows

(* What is set up and shut down follows the phases. *)
LEMMA NextParts ==
  ASSUME Parts, [Next]_vars
  PROVE  Parts'
  <1> USE DEF Parts, Phase, OpenIn
  <1>1. CASE MainStep
    <2>1. CASE LoadConfig
      BY <2>1 DEF LoadConfig, Exit
    <2>2. CASE SetupAWS
      BY <2>2 DEF SetupAWS, Exit
    <2>3. CASE SetupTelemetry
      BY <2>3 DEF SetupTelemetry, SetUp, Exit
    <2>4. CASE CreateForwarder
      BY <2>4 DEF CreateForwarder, SetUp
    <2>5. CASE Warm
      BY <2>5 DEF Warm
    <2>6. CASE StartHandler
      BY <2>6 DEF StartHandler, SetUp
    <2> QED
      BY <1>1, <2>1, <2>2, <2>3, <2>4, <2>5, <2>6 DEF MainStep
  <1>2. CASE Selected \/ TimePasses \/ DialStep
    BY <1>2 DEF Selected, TimePasses, DialStep, mainVars
  <1>3. CASE \E e \in Event : \E i \in DOMAIN AllUrls :
                 Translate(e, AllUrls[i])
    BY <1>3 DEF Translate, mainVars
  <1>4. CASE FailAgain
    BY <1>4 DEF FailAgain, mainVars
  <1>5. CASE Stop
    BY <1>5 DEF Stop
  <1>6. CASE ShutDown
    <2>1. /\ phase = "stopping" /\ phase' = phase
          /\ open' = IF "handler" \in open THEN open \ {"handler"}
                     ELSE IF "forwarder" \in open THEN open \ {"forwarder"}
                     ELSE {}
      BY <1>6 DEF ShutDown
    <2>2. CASE open = {"telemetry", "forwarder", "handler"}
      <3>1. open' = {"telemetry", "forwarder"}
        BY <2>1, <2>2
      <3> QED
        BY <2>1, <3>1
    <2>3. CASE open = {"telemetry", "forwarder"}
      <3>1. open' = {"telemetry"}
        BY <2>1, <2>3
      <3> QED
        BY <2>1, <3>1
    <2>4. CASE open = {"telemetry"} \/ open = {}
      <3>1. open' = {}
        BY <2>1, <2>4
      <3> QED
        BY <2>1, <3>1
    <2> QED
      BY <2>1, <2>2, <2>3, <2>4
  <1>7. CASE UNCHANGED vars
    BY <1>7 DEF vars, mainVars
  <1> QED
    BY <1>1, <1>2, <1>3, <1>4, <1>5, <1>6, <1>7 DEF Next

(* No step but the loading of the configuration, the creation of the       *)
(* forwarder, a failing attempt and the stop touches what follows from the *)
(* scenario. *)
LEMMA NextLoaded ==
  ASSUME NEW w \in Scenario, Loaded(w), [Next]_vars
  PROVE  Loaded(w)'
  <1> USE DEF Loaded
  <1>1. CASE MainStep
    <2>1. CASE LoadConfig
      <3>1. CASE Startable(world)
        <4>1. config' = Configured(w) /\ world' = w /\ Startable(w)
          BY <2>1, <3>1 DEF LoadConfig
        <4>2. Configured(w) # <<>>
          BY <4>1, ConfiguredSet
        <4> QED
          BY <4>1, <4>2
      <3>2. CASE ~Startable(world)
        BY <2>1, <3>2 DEF LoadConfig, Exit
      <3> QED
        BY <3>1, <3>2
    <2>2. CASE SetupAWS
      BY <2>2 DEF SetupAWS, Exit
    <2>3. CASE SetupTelemetry
      BY <2>3 DEF SetupTelemetry, SetUp, Exit
    <2>4. CASE CreateForwarder
      BY <2>4 DEF CreateForwarder, SetUp
    <2>5. CASE Warm
      BY <2>5 DEF Warm
    <2>6. CASE StartHandler
      BY <2>6 DEF StartHandler, SetUp
    <2> QED
      BY <1>1, <2>1, <2>2, <2>3, <2>4, <2>5, <2>6 DEF MainStep
  <1>2. CASE Selected \/ TimePasses \/ DialStep
    BY <1>2 DEF Selected, TimePasses, DialStep, mainVars
  <1>3. CASE \E e \in Event : \E i \in DOMAIN AllUrls :
                 Translate(e, AllUrls[i])
    BY <1>3 DEF Translate, mainVars
  <1>4. CASE FailAgain
    BY <1>4 DEF FailAgain, mainVars
  <1>5. CASE Stop
    BY <1>5 DEF Stop
  <1>6. CASE ShutDown
    BY <1>6 DEF ShutDown
  <1>7. CASE UNCHANGED vars
    BY <1>7 DEF vars, mainVars
  <1> QED
    BY <1>1, <1>2, <1>3, <1>4, <1>5, <1>6, <1>7 DEF Next

(* The forwarder's settings are made once, of the configuration loaded. *)
LEMMA NextCreated ==
  ASSUME NEW w \in Scenario, Loaded(w), Created(w), [Next]_vars
  PROVE  Created(w)'
  <1> USE DEF Created
  <1>1. CASE MainStep
    <2>1. CASE LoadConfig
      <3>1. CASE Startable(w)
        <4>1. config' = Configured(w) /\ Configured(w) # <<>>
          BY <2>1, <3>1, ConfiguredSet DEF LoadConfig, Loaded
        <4> QED
          BY <2>1, <3>1, <4>1 DEF LoadConfig, Loaded
      <3>2. CASE ~Startable(w)
        BY <2>1, <3>2 DEF LoadConfig, Exit, Loaded
      <3> QED
        BY <3>1, <3>2
    <2>2. CASE SetupAWS
      BY <2>2 DEF SetupAWS, Exit
    <2>3. CASE SetupTelemetry
      BY <2>3 DEF SetupTelemetry, SetUp, Exit
    <2>4. CASE CreateForwarder
      <3>1. config # <<>> /\ config = Configured(w)
        BY <2>4 DEF CreateForwarder, Loaded
      <3>2. settings' = Settings(Configured(w)) /\ config' = config
        BY <2>4, <3>1 DEF CreateForwarder, SetUp
      <3>3. Settings(Configured(w)) # <<>>
        BY SettingsSet
      <3> QED
        BY <3>1, <3>2, <3>3
    <2>5. CASE Warm
      BY <2>5 DEF Warm
    <2>6. CASE StartHandler
      BY <2>6 DEF StartHandler, SetUp
    <2> QED
      BY <1>1, <2>1, <2>2, <2>3, <2>4, <2>5, <2>6 DEF MainStep
  <1>2. CASE Selected \/ TimePasses \/ DialStep
    BY <1>2 DEF Selected, TimePasses, DialStep, mainVars
  <1>3. CASE \E e \in Event : \E i \in DOMAIN AllUrls :
                 Translate(e, AllUrls[i])
    BY <1>3 DEF Translate, mainVars
  <1>4. CASE FailAgain
    BY <1>4 DEF FailAgain, mainVars
  <1>5. CASE Stop
    BY <1>5 DEF Stop
  <1>6. CASE ShutDown
    BY <1>6 DEF ShutDown
  <1>7. CASE UNCHANGED vars
    BY <1>7 DEF vars, mainVars
  <1> QED
    BY <1>1, <1>2, <1>3, <1>4, <1>5, <1>6, <1>7 DEF Next

(* The types of the calls follow from the series they make up. *)
LEMMA NextSeries ==
  ASSUME NEW w \in Scenario, Follows(w), CallTypes, [Next]_vars
  PROVE  Series(w)' /\ CallTypes'
  <1> USE DEF Series, CallTypes, Follows
  <1>1. CASE MainStep
    <2>1. CASE LoadConfig
      BY <2>1 DEF LoadConfig, Exit, callVars
    <2>2. CASE SetupAWS
      BY <2>2 DEF SetupAWS, Exit, callVars
    <2>3. CASE SetupTelemetry
      BY <2>3 DEF SetupTelemetry, SetUp, Exit, callVars
    <2>4. CASE CreateForwarder
      <3>1. settings' # <<>>
        <4>1. settings' = Settings(config)
          BY <2>4 DEF CreateForwarder
        <4>2. Settings(config) # <<>>
          BY SettingsSet
        <4> QED
          BY <4>1, <4>2
      <3> QED
        BY <2>4, <3>1 DEF CreateForwarder, callVars
    <2>5. CASE Warm
      BY <2>5 DEF Warm, callVars
    <2>6. CASE StartHandler
      BY <2>6 DEF StartHandler, callVars
    <2> QED
      BY <1>1, <2>1, <2>2, <2>3, <2>4, <2>5, <2>6 DEF MainStep
  <1>2. CASE Selected \/ TimePasses \/ DialStep
    BY <1>2 DEF Selected, TimePasses, DialStep, mainVars, callVars
  <1>3. CASE \E e \in Event : \E i \in DOMAIN AllUrls :
                 Translate(e, AllUrls[i])
    BY <1>3 DEF Translate, mainVars
  <1>4. CASE FailAgain
    <2> DEFINE p == PolicyIn(w)
    <2>1. /\ settings # <<>> /\ settings = Settings(Configured(w))
          /\ config # <<>> /\ Startable(w)
      BY <1>4 DEF FailAgain, Created, Loaded
    <2>2. RetryOf(settings) = p
      BY <2>1 DEF PolicyIn
    <2>3. /\ attempt < p.MaxRetries
          /\ attempt' = attempt + 1
          /\ delay' \in NextDelay(p, attempt + 1)
          /\ nominal' = Smaller(p.MaxDelay, IF attempt = 0 THEN p.BaseDelay
                                            ELSE 2 * nominal)
          /\ settings' = settings
      BY <1>4, <2>2 DEF FailAgain, ShouldRetry, mainVars
    <2>4. PositivePolicy(p)
      BY <2>1, PolicyOf DEF PolicyIn
    <2>5. /\ p.MaxRetries \in 1..AtMost["MaxRetries"]
          /\ AtMost["MaxRetries"] \in Nat
      BY <2>4, LimitTypes DEF PositivePolicy, Setting
    <2> HIDE DEF p
    <2>6. attempt # 0 => nominal = Nominal(p, attempt)
      <3>1. attempt # 0 => attempt \in 1..AtMost["MaxRetries"]
        BY <2>3, <2>5
      <3> QED
        BY <3>1 DEF p
    <2>7. nominal' = Nominal(p, attempt + 1) /\ nominal' \in Nat
      <3>1. /\ Nominal(p, attempt + 1) =
                  Smaller(p.MaxDelay, IF attempt = 0 THEN p.BaseDelay
                                      ELSE 2 * Nominal(p, attempt))
            /\ Nominal(p, attempt + 1) \in Nat \ {0}
        BY <2>4, NominalStep
      <3>2. CASE attempt = 0
        BY <2>3, <3>1, <3>2
      <3>3. CASE attempt # 0
        BY <2>3, <2>6, <3>1, <3>3
      <3> QED
        BY <3>2, <3>3
    <2>8. delay' \in Int
      BY <2>3, <2>4, DelayType
    <2>9. attempt' > 0 => /\ settings' # <<>>
                          /\ attempt' <= PolicyIn(w).MaxRetries
      BY <2>1, <2>3, <2>5 DEF p
    <2>10. \A n \in 1..AtMost["MaxRetries"] :
             attempt' = n => /\ nominal' = Nominal(PolicyIn(w), n)
                             /\ delay' \in NextDelay(PolicyIn(w), n)
      BY <2>3, <2>7 DEF p
    <2> QED
      BY <2>3, <2>7, <2>8, <2>9, <2>10
  <1>5. CASE Stop
    BY <1>5, LimitTypes DEF Stop, Setting
  <1>6. CASE ShutDown
    BY <1>6 DEF ShutDown, callVars
  <1>7. CASE UNCHANGED vars
    BY <1>7 DEF vars, mainVars, callVars
  <1> QED
    BY <1>1, <1>2, <1>3, <1>4, <1>5, <1>6, <1>7 DEF Next

(* A dial's end, the timer and the return of WarmConnections keep the types. *)
LEMMA NextWarm ==
  ASSUME WarmTypes, [Next]_vars
  PROVE  WarmTypes'
  <1> USE DEF WarmTypes
  <1>1. CASE MainStep
    <2>1. CASE LoadConfig \/ SetupAWS \/ SetupTelemetry \/ CreateForwarder
               \/ StartHandler
      BY <2>1 DEF LoadConfig, SetupAWS, SetupTelemetry, CreateForwarder,
                  StartHandler, warmVars
    <2>2. CASE Warm
      <3>1. CASE StartWarming(AllUrls)
        <4>1. /\ warming' = "waiting" /\ elapsed' = elapsed
              /\ dial' = [i \in DOMAIN AllUrls |->
                             IF AllUrls[i].parses THEN "dialing" ELSE "over"]
          BY <3>1 DEF StartWarming
        <4> QED
          BY <4>1
      <3>2. CASE UNCHANGED warmVars
        BY <3>2 DEF warmVars
      <3> QED
        BY <2>2, <3>1, <3>2 DEF Warm
    <2> QED
      BY <1>1, <2>1, <2>2 DEF MainStep
  <1>2. CASE Selected
    BY <1>2 DEF Selected, WarmingReturns
  <1>3. CASE TimePasses
    BY <1>3, WarmAssumption DEF TimePasses, WarmTick
  <1>4. CASE DialStep
    BY <1>4 DEF DialStep, DialEnds
  <1>5. CASE \E e \in Event : \E i \in DOMAIN AllUrls :
                 Translate(e, AllUrls[i])
    BY <1>5 DEF Translate, warmVars
  <1>6. CASE FailAgain \/ Stop \/ ShutDown
    BY <1>6 DEF FailAgain, Stop, ShutDown, warmVars
  <1>7. CASE UNCHANGED vars
    BY <1>7 DEF vars, warmVars
  <1> QED
    BY <1>1, <1>2, <1>3, <1>4, <1>5, <1>6, <1>7 DEF Next

(* A request that is prepared holds its event, and stays as it is. *)
LEMMA NextSent ==
  ASSUME Sent, [Next]_vars
  PROVE  Sent'
  <1>1. CASE request' = request
    BY <1>1 DEF Sent
  <1>2. CASE request' = <<>>
    BY <1>2 DEF Sent
  <1>3. CASE \E e \in Event : \E i \in DOMAIN AllUrls :
                Translate(e, AllUrls[i])
    <2>1. PICK e \in Event, i \in DOMAIN AllUrls : Translate(e, AllUrls[i])
      BY <1>3
    <2>2. PICK u : u = AllUrls[i]
      OBVIOUS
    <2>3. PICK p \in newWebhookPayload(e) :
             request' = [event |-> e, webhook |-> u,
                         sent |-> newPreparedRequest(u, p, "new")]
      BY <2>1, <2>2 DEF Translate
    <2>4. PICK r : r = [event |-> e, webhook |-> u,
                        sent |-> newPreparedRequest(u, p, "new")]
      OBVIOUS
    <2>5. Content(r)
      BY <2>4, ContentOf
    <2> QED
      BY <2>3, <2>4, <2>5 DEF Sent
  <1> QED
    BY <1>1, <1>2, <1>3 DEF Next, MainStep, LoadConfig, SetupAWS,
       SetupTelemetry, CreateForwarder, Warm, StartHandler, Selected,
       TimePasses, DialStep, FailAgain, Stop, ShutDown, vars, callVars

(* Every step of the process keeps the invariant. *)
LEMMA NextBridge == BridgeInv /\ [Next]_vars => BridgeInv'
  <1> SUFFICES ASSUME BridgeInv, [Next]_vars
               PROVE  BridgeInv'
    OBVIOUS
  <1>1. PICK w \in Scenario : Follows(w)
    BY DEF BridgeInv
  <1>2. Loaded(w)' /\ Created(w)'
    BY <1>1, NextLoaded, NextCreated DEF Follows
  <1>3. Series(w)' /\ CallTypes'
    BY <1>1, NextSeries DEF BridgeInv
  <1>4. Parts' /\ WarmTypes' /\ Sent'
    BY NextParts, NextWarm, NextSent DEF BridgeInv
  <1> QED
    BY <1>2, <1>3, <1>4 DEF BridgeInv, Follows

(* In every scenario each phase of main has what it set up, the settings   *)
(* and the waits are those of the scenario, and a request holds its event. *)
THEOREM BridgeInvariant == Spec => []BridgeInv
  BY InitBridge, NextBridge, PTL DEF Spec

-----------------------------------------------------------------------------
(* Theorems *)

(* In every phase the parts that are open have the parts they use, and an  *)
(* exit finds none open. *)
THEOREM Dependencies == Spec => []DependenciesOpen
  <1>1. BridgeInv => DependenciesOpen
    <2> SUFFICES ASSUME Parts
                 PROVE  DependenciesOpen
      BY DEF BridgeInv
    <2> USE DEF DependenciesOpen, Parts, Phase, OpenIn
    <2>1. CASE phase \in {"start", "configured", "connected", "exited"}
      <3>1. open = {}
        BY <2>1
      <3> QED
        BY <3>1
    <2>2. CASE phase \in {"observed", "forwarding", "warming", "serving"}
      BY <2>2
    <2>3. CASE phase = "stopping"
      BY <2>3
    <2> QED
      BY <2>1, <2>2, <2>3
  <1> QED
    BY <1>1, BridgeInvariant, PTL

(* What a configuration that was loaded has besides its settings. *)
LEMMA Accepted ==
  ASSUME NEW w \in Scenario, Startable(w)
  PROVE  LET c == Configured(w)
         IN  /\ c.SNSTopicArn # ""
             /\ \E urls \in {c.WebhookURLs, c.CloudWebhookURLs,
                             c.EnterpriseWebhookURLs} : urls # <<>>
  <1> DEFINE c == Configured(w)
  <1>1. c.SNSTopicArn # "" /\ NumberOfUrls(c) > 0
    BY DEF Startable, Validate
  <1> HIDE DEF c
  <1>2. ~(/\ c.WebhookURLs = <<>> /\ c.CloudWebhookURLs = <<>>
          /\ c.EnterpriseWebhookURLs = <<>>)
    <2> SUFFICES ASSUME /\ c.WebhookURLs = <<>> /\ c.CloudWebhookURLs = <<>>
                        /\ c.EnterpriseWebhookURLs = <<>>
                 PROVE  FALSE
      OBVIOUS
    <2>1. Len(<<>>) = 0
      OBVIOUS
    <2>2. NumberOfUrls(c) = Len(<<>>) + Len(<<>>) + Len(<<>>)
      BY DEF NumberOfUrls
    <2>3. NumberOfUrls(c) = 0
      BY <2>1, <2>2
    <2>4. ~(0 > 0)
      OBVIOUS
    <2> QED
      BY <1>1, <2>3, <2>4, Zenon
  <1> QED
    BY <1>1, <1>2 DEF c

(* Whatever the file and the environment say, the process serves with      *)
(* settings in their documented ranges, but for those asked for that are   *)
(* positive and too small, and those whose duration wraps. *)
THEOREM SettingsAreInRange == Spec => []SettingsInRange
  <1>1. BridgeInv => SettingsInRange
    <2> SUFFICES ASSUME BridgeInv
                 PROVE  SettingsInRange
      OBVIOUS
    <2>1. PICK w \in Scenario : Follows(w)
      BY DEF BridgeInv
    <2>2. ASSUME settings # <<>>
          PROVE  /\ config = Configured(w) /\ Startable(w)
                 /\ settings = Settings(Configured(w))
      BY <2>1, <2>2 DEF Follows, Loaded, Created
    <2>3. TypeOK
      <3>1. /\ phase \in {"start", "configured", "connected", "observed",
                          "forwarding", "warming", "serving", "stopping",
                          "exited"}
            /\ open \subseteq {"telemetry", "forwarder", "handler"}
        <4>1. Parts
          BY DEF BridgeInv
        <4>2. CASE phase \in {"start", "configured", "connected", "exited"}
          BY <4>1, <4>2 DEF Parts, Phase, OpenIn
        <4>3. CASE phase \in {"observed", "forwarding", "warming", "serving"}
          BY <4>1, <4>3 DEF Parts, Phase, OpenIn
        <4>4. CASE phase = "stopping"
          BY <4>1, <4>4 DEF Parts, Phase, OpenIn
        <4> QED
          BY <4>1, <4>2, <4>3, <4>4 DEF Parts, Phase
      <3>2. config = <<>> => phase \in {"start", "exited"}
        BY <2>1 DEF Follows, Loaded
      <3>3. settings # <<>> =>
               /\ \A f \in Setting : settings.value[f] \in Nat \ {0}
               /\ settings.EnableJitter \in BOOLEAN
        <4> SUFFICES ASSUME settings # <<>>
                     PROVE  /\ \A f \in Setting :
                                settings.value[f] \in Nat \ {0}
                            /\ settings.EnableJitter \in BOOLEAN
          OBVIOUS
        <4>1. "MaxRetries" \in Setting
          BY DEF Setting
        <4> QED
          BY <2>2, <4>1, SettingsOf
      <3> QED
        BY <3>1, <3>2, <3>3 DEF TypeOK, BridgeInv, WarmTypes, CallTypes
    <2>4. ASSUME settings # <<>>
          PROVE  /\ config.SNSTopicArn # ""
                 /\ \E urls \in {config.WebhookURLs, config.CloudWebhookURLs,
                                 config.EnterpriseWebhookURLs} : urls # <<>>
      BY <2>2, <2>4, Accepted
    <2>5. ASSUME settings # <<>>, NEW f \in Setting
          PROVE  \/ Wraps(f)
                 \/ /\ TooSmall(f)
                    /\ settings.value[f] = config.int[f] * Unit(f)
                 \/ settings.value[f]
                       \in AtLeast[f] * Unit(f)..AtMost[f] * Unit(f)
      BY <2>2, <2>5, SettingsOf, ConfiguredInt DEF Wraps, TooSmall
    <2> QED
      BY <2>3, <2>4, <2>5 DEF SettingsInRange
  <1> QED
    BY <1>1, BridgeInvariant, PTL

(* An integer of the environment that is positive and within its limit, or *)
(* of the file where the environment is silent, is the one in effect. *)
THEOREM EnvironmentPrecedes == Spec => []EnvironmentWins
  <1>1. BridgeInv => EnvironmentWins
    <2> SUFFICES ASSUME BridgeInv, settings # <<>>, NEW f \in Setting,
                        LET asked == IF world.environ.int[f] # <<>>
                                     THEN world.environ.int[f][1]
                                     ELSE world.file[1].int[f]
                        IN  asked \in 1..AtMost[f]
                 PROVE  settings.value[f] =
                           (IF world.environ.int[f] # <<>>
                            THEN world.environ.int[f][1]
                            ELSE world.file[1].int[f]) * Unit(f)
      BY DEF EnvironmentWins
    <2>1. PICK w \in Scenario : Follows(w)
      BY DEF BridgeInv
    <2>2. /\ world = w /\ Startable(w)
          /\ settings = Settings(Configured(w))
      BY <2>1 DEF Follows, Loaded, Created
    <2>3. Asked(w, f) > 0
      BY <2>2, LimitTypes DEF Asked
    <2> QED
      BY <2>2, <2>3, SettingsOf DEF Asked
  <1> QED
    BY <1>1, BridgeInvariant, PTL

(* No part of an event is lost on its way into a request: its body, every  *)
(* value of its headers but of those the bridge replaces, its query.       *)
THEOREM ContentIsKept == Spec => []ContentKept
  <1>1. BridgeInv => ContentKept
    BY DEF BridgeInv, Sent, Content, ContentKept
  <1> QED
    BY <1>1, BridgeInvariant, PTL

(* While a series of attempts lasts, its policy is that of the scenario. *)
LEMMA SeriesOf ==
  ASSUME NEW w \in Scenario, Follows(w), CallTypes, attempt > 0, ~WaitsWrap
  PROVE  /\ RetryOf(settings) = PolicyIn(w)
         /\ PositivePolicy(PolicyIn(w)) /\ BoundedPolicy(PolicyIn(w))
         /\ attempt \in 1..AtMost["MaxRetries"]
         /\ nominal = Nominal(PolicyIn(w), attempt)
         /\ delay \in NextDelay(PolicyIn(w), attempt)
  <1>1. /\ settings = Settings(Configured(w))
        /\ config = Configured(w) /\ Startable(w)
    BY DEF Follows, Loaded, Created, Series
  <1>2. /\ PositivePolicy(PolicyIn(w)) /\ BoundedPolicy(PolicyIn(w))
    BY <1>1, PolicyOf DEF PolicyIn, WaitsWrap, Wraps
  <1>3. attempt \in 1..AtMost["MaxRetries"]
    <2>1. AtMost["MaxRetries"] \in Nat
      BY LimitTypes DEF Setting
    <2> QED
      BY <1>2, <2>1 DEF Follows, Series, CallTypes, PositivePolicy
  <1> QED
    BY <1>1, <1>2, <1>3 DEF Follows, Series, PolicyIn

(* Every wait is near the nominal one, for every policy Validate accepts. *)
THEOREM NearNominal == Spec => []WaitsNearNominal
  <1>1. BridgeInv => WaitsNearNominal
    <2> SUFFICES ASSUME BridgeInv, attempt > 0, ~WaitsWrap
                 PROVE  LET p == RetryOf(settings)
                        IN  IF p.EnableJitter THEN Near(p, nominal, delay)
                                              ELSE delay = nominal
      BY DEF WaitsNearNominal, Near
    <2>1. PICK w \in Scenario : Follows(w)
      BY DEF BridgeInv
    <2> QED
      BY <2>1, SeriesOf, DelayNear DEF BridgeInv
  <1> QED
    BY <1>1, BridgeInvariant, PTL

(* A wait that is nominally twice as long is longer. *)
LEMMA TwiceIsLonger ==
  ASSUME NEW p, PositivePolicy(p), BoundedPolicy(p),
         NEW n \in 1..AtMost["MaxRetries"], n + 1 <= AtMost["MaxRetries"],
         Nominal(p, n + 1) = 2 * Nominal(p, n),
         NEW d \in NextDelay(p, n), NEW e \in NextDelay(p, n + 1)
  PROVE  e > d
  <1>1. AtMost["MaxRetries"] \in Nat
    BY LimitTypes DEF Setting
  <1>2. n \in Nat \ {0} /\ n + 1 \in 1..AtMost["MaxRetries"]
    BY <1>1
  <1> DEFINE N == Nominal(p, n)
             b == p.BaseDelay
  <1>3. N \in Nat \ {0} /\ b \in Nat \ {0} /\ p.MaxDelay \in Nat \ {0}
    BY BackoffExact DEF PositivePolicy
  <1>4. /\ d \in Int /\ e \in Int
        /\ IF p.EnableJitter THEN Near(p, N, d) /\ Near(p, 2 * N, e)
                             ELSE d = N /\ e = 2 * N
    BY <1>2, DelayNear
  <1>5. b <= N
    <2>1. 2 * N <= p.MaxDelay
      <3>1. p.BaseDelay * 2^n \in Nat
        BY <1>2, <1>3, PowerPositive
      <3>2. (n + 1) - 1 = n
        BY <1>2
      <3>3. 2 * N = Smaller(p.MaxDelay, p.BaseDelay * 2^n)
        BY <3>2 DEF Nominal
      <3> HIDE DEF N
      <3> QED
        BY <1>3, <3>1, <3>3 DEF Smaller
    <2>2. 2^(n - 1) \in Nat \ {0}
      BY <1>2, PowerPositive
    <2>3. b * 2^(n - 1) \in Nat /\ b * 2^(n - 1) >= b
      <3>1. \A x \in Nat, y \in Nat \ {0} : x * y \in Nat /\ x * y >= x
        OBVIOUS
      <3> QED
        BY <1>3, <2>2, <3>1
    <2>4. N = Smaller(p.MaxDelay, b * 2^(n - 1))
      BY DEF Nominal
    <2> HIDE DEF N, b
    <2> QED
      BY <1>3, <2>1, <2>3, <2>4 DEF Smaller
  <1> HIDE DEF N
  <1> QED
    BY <1>3, <1>4, <1>5 DEF Near

(* Jitter never reorders the waits of a series. *)
THEOREM LaterIsLonger == Spec => LaterWaitsLonger
  <1>1. ASSUME BridgeInv, BridgeInv', [Next]_vars
        PROVE  [attempt > 0 /\ ~WaitsWrap /\ nominal' = 2 * nominal
                  => delay' > delay]_vars
    <2> SUFFICES ASSUME Next, attempt > 0, ~WaitsWrap, nominal' = 2 * nominal
                 PROVE  delay' > delay
      BY <1>1
    <2>1. PICK w \in Scenario : Follows(w)
      BY <1>1 DEF BridgeInv
    <2> DEFINE p == PolicyIn(w)
    <2>2. /\ RetryOf(settings) = p
          /\ PositivePolicy(p) /\ BoundedPolicy(p)
          /\ attempt \in 1..AtMost["MaxRetries"]
          /\ nominal = Nominal(p, attempt)
          /\ delay \in NextDelay(p, attempt)
      BY <1>1, <2>1, SeriesOf DEF BridgeInv
    <2> HIDE DEF p
    <2>3. nominal \in Nat \ {0}
      BY <2>2, BackoffExact
    <2>4. nominal' # nominal /\ nominal' # 0
      BY <2>3
    <2>5. FailAgain
      BY <2>2, <2>4 DEF Next, MainStep, LoadConfig, SetupAWS, SetupTelemetry,
         CreateForwarder, Warm, StartHandler, Selected, TimePasses, DialStep,
         Translate, Stop, ShutDown, callVars
    <2>6. /\ attempt < p.MaxRetries
          /\ delay' \in NextDelay(p, attempt + 1)
          /\ nominal' = Smaller(p.MaxDelay, IF attempt = 0 THEN p.BaseDelay
                                            ELSE 2 * nominal)
      BY <2>2, <2>5 DEF FailAgain, ShouldRetry
    <2>7. attempt \in Nat \ {0} /\ attempt + 1 <= AtMost["MaxRetries"]
      <3>1. AtMost["MaxRetries"] \in Nat
        BY LimitTypes DEF Setting
      <3> QED
        BY <2>2, <2>6, <3>1 DEF PositivePolicy
    <2>8. nominal' = Nominal(p, attempt + 1)
      BY <2>2, <2>6, <2>7, NominalStep
    <2> QED
      BY <2>2, <2>6, <2>7, <2>8, TwiceIsLonger
  <1> QED
    BY <1>1, BridgeInvariant, PTL DEF Spec, LaterWaitsLonger
=============================================================================
