-------------------------- MODULE EvaluationProofs --------------------------
(***************************************************************************)
(* Proofs about Evaluation, for every instance: any number of tests, any   *)
(* limit of the capture, any amount of output and any number of faults.    *)
(*                                                                         *)
(* The verdict on a command is reached after its process is gone and both  *)
(* drains have met the end of their pipes, so it rests on what the capture *)
(* says of itself.  CaptureIsExact is inductive with the types; CommandOK  *)
(* says which process a command may still have; Collected follows the loop *)
(* of the engine over the tools, and Verdict the result from there to the  *)
(* row and the answer.                                                     *)
(*                                                                         *)
(* The second part is about AIAssessment, for any number of judges, slots, *)
(* attempts and tests, any scores and any drafts.                          *)
(***************************************************************************)
EXTENDS Evaluation, AIAssessment, FiniteFacts, TLAPS

\* What TypeOK says of the variables below, and what is known of the instance.
Typed ==
  /\ config.instance \in Instances
  /\ config.analysis \in BOOLEAN /\ config.repository \in BOOLEAN
  /\ pc \in {"prepare", "test", "spawn", "command", "drain", "unwind", "score", "persist", "done"}
  /\ proc \in {"none", "running", "exited", "killed"}
  /\ pipe \in [Streams -> Nat] /\ kept \in [Streams -> Nat]
  /\ written \in Nat /\ truncated \in BOOLEAN /\ timed_out \in BOOLEAN
  /\ tool \in 1..4
  /\ evidence \in [{"ruff", "mypy", "bandit", "radon"} -> {"none", "whole", "partial", "source"}]
  /\ runner.passed \in Nat /\ runner.total \in Nat

\* A command has a process of its own until it is drained, and that process ended
\* by itself unless the time was over.
CommandOK ==
  /\ proc = "running" => pc = "command"
  /\ pc = "command" => proc \in {"running", "exited"}
  /\ pc = "drain" /\ ~timed_out => proc = "exited"
  /\ pc \notin {"drain", "unwind"} => ~timed_out
  /\ pc \notin {"command", "drain", "unwind"} => written = 0 /\ pipe = Idle

\* The tools before the current one have reported, and all of them have once there
\* is something to score.
Collected ==
  /\ pc \in {"spawn", "command", "drain", "unwind"} => config.analysis
  /\ pc \in {"prepare", "test"} => tool = 1
  /\ \A k \in 1..4 : k < tool => evidence[Tools[k]] \in {"whole", "source"}
  /\ pc \in {"score", "persist"} /\ config.analysis =>
       \A t \in DOMAIN evidence : evidence[t] \in {"whole", "source"}

\* A result exists once it is scored, and nothing is stored or answered before.
Verdict ==
  /\ pc \notin {"persist", "done"} => result = NoResult
  /\ pc # "done" => stored = NoResult /\ answer = "none"

IInv ==
  /\ Typed
  /\ CommandOK
  /\ CaptureIsExact
  /\ Collected
  /\ Verdict
  /\ EvidenceIsComplete
  /\ StoredBeforeAnswered

-----------------------------------------------------------------------------
(***************************************************************************)
(* The operators.                                                          *)
(***************************************************************************)

LEMMA ToolNames ==
  /\ Len(Tools) = 4
  /\ \A k \in 1..4 : Tools[k] \in {"ruff", "mypy", "bandit", "radon"}
  /\ Tools[1] = "ruff" /\ Tools[2] = "mypy" /\ Tools[3] = "bandit" /\ Tools[4] = "radon"
BY DEF Tools

LEMMA InstanceBounds ==
  ASSUME config.instance \in Instances
  PROVE  Limit \in Nat \ {0} /\ MaxTests \in Nat \ {0} /\ MaxTests < 20000 /\ MaxOutput \in Nat
BY Bounds DEF Limit, MaxTests, MaxOutput

\* Whatever the penalties add up to, a clamped score is not mistaken for a
\* dimension that was not measured.
LEMMA ClampIsMeasured == \A value : _clamp(value) # Absent
BY DEF _clamp, Absent

LEMMA RoundedIsMeasured ==
  ASSUME NEW n \in Nat, NEW d \in Nat \ {0}
  PROVE  \A x \in Rounded(n, d) : x # Absent
<1>1. n \div d \in Nat
  OBVIOUS
<1> QED
  BY <1>1 DEF Rounded, Absent

LEMMA ComplexityIsMeasured == \A c : _complexity_score(c) # Absent
BY DEF _complexity_score, Absent

LEMMA PenaltyIsMeasured ==
  /\ \A fs, category, penalties : _penalty_score(fs, category, penalties) # Absent
  /\ \A fs : _security_score(fs) # Absent
BY ClampIsMeasured DEF _penalty_score, _security_score

\* calculate_score: a dimension is absent exactly when there was no analysis, and then
\* the score is the correctness.
LEMMA BreakdownIsMeasured ==
  ASSUME NEW r, r.passed \in Nat, r.total \in Nat, NEW fs, NEW c, config.analysis \in BOOLEAN,
         NEW b \in calculate_score(r, fs, c)
  PROVE  /\ Absent \in {b[d] : d \in DOMAIN b} <=> ~config.analysis
         /\ ~config.analysis => calculate_final_score(b) = {b.correctness}
<1>1. PICK x \in IF r.total = 0 THEN {0} ELSE Rounded(r.passed * 10000, r.total) :
        b = [correctness |-> x,
             code_quality |-> IF config.analysis
                              THEN _penalty_score(fs, "quality", QUALITY_PENALTIES) ELSE Absent,
             type_safety |-> IF config.analysis
                             THEN _penalty_score(fs, "type_safety", TYPE_SAFETY_PENALTIES) ELSE Absent,
             security |-> IF config.analysis THEN _security_score(fs) ELSE Absent,
             complexity |-> IF config.analysis THEN _complexity_score(c) ELSE Absent]
  BY DEF calculate_score
<1>2. x # Absent
  <2>1. CASE r.total = 0
    BY <1>1, <2>1 DEF Absent
  <2>2. CASE r.total # 0
    <3>1. r.passed * 10000 \in Nat /\ r.total \in Nat \ {0}
      BY <2>2
    <3> QED
      BY <1>1, <2>2, <3>1, RoundedIsMeasured
  <2> QED
    BY <2>1, <2>2
<1>3. DOMAIN b = {"correctness", "code_quality", "type_safety", "security", "complexity"}
  BY <1>1
<1>4. CASE config.analysis
  <2>1. b.code_quality # Absent /\ b.type_safety # Absent
    BY <1>1, <1>4, PenaltyIsMeasured
  <2>2. b.security # Absent /\ b.complexity # Absent /\ b.correctness # Absent
    BY <1>1, <1>2, <1>4, PenaltyIsMeasured, ComplexityIsMeasured
  <2> QED
    BY <1>3, <1>4, <2>1, <2>2
<1>5. CASE ~config.analysis
  <2>1. b.code_quality = Absent
    BY <1>1, <1>5
  <2> QED
    BY <1>3, <1>5, <2>1 DEF calculate_final_score
<1> QED
  BY <1>4, <1>5

\* The runner counts with natural numbers.
LEMMA RunnerCounts ==
  ASSUME config.instance \in Instances, NEW r \in DockerResults \cup LocalResults
  PROVE  r.passed \in Nat /\ r.total \in Nat
<1>1. MaxTests \in Nat
  BY InstanceBounds
<1> QED
  BY <1>1 DEF DockerResults, LocalResults, Ended, Counted

-----------------------------------------------------------------------------
(***************************************************************************)
(* The score.                                                              *)
(***************************************************************************)

\* A rounded fraction is a natural number within one half of it.
LEMMA RoundedIsNear ==
  ASSUME NEW n \in Nat, NEW d \in Nat \ {0}, NEW x \in Rounded(n, d)
  PROVE  /\ x \in Nat
         /\ n = d * (n \div d) + (n % d) /\ n \div d \in Nat /\ n % d \in 0..(d - 1)
         /\ \/ x = n \div d /\ 2 * (n % d) <= d
            \/ x = n \div d + 1 /\ 2 * (n % d) >= d
<1>1. n = d * (n \div d) + (n % d) /\ n \div d \in Nat /\ n % d \in 0..(d - 1)
  OBVIOUS
<1> QED
  BY <1>1 DEF Rounded

LEMMA OnScale == \A x : x \in Score <=> (x \in Nat /\ x <= 10000)
<1> DEFINE S == 0..10000
<1>1. \A x \in Nat : x <= 10000 => x \in S
  OBVIOUS
<1>2. \A x \in S : x \in Nat /\ x <= 10000
  OBVIOUS
<1>3. Score = S
  BY DEF Score
<1> HIDE DEF S
<1> QED
  BY <1>1, <1>2, <1>3

\* correctness lies on its scale, and is full only when every test passed: fewer than
\* 20000 tests are told apart by hundredths of a point.
LEMMA CorrectnessIsExact ==
  ASSUME NEW p \in Nat, NEW t \in Nat \ {0}, t < 20000, p <= t, NEW x \in Rounded(p * 10000, t)
  PROVE  x \in Score /\ (x = 10000 <=> p = t)
<1> DEFINE n == p * 10000
           q == n \div t
           r == n % t
           m == t * q
<1>1. n \in Nat /\ t \in Nat \ {0} /\ x \in Rounded(n, t)
  OBVIOUS
<1>2. /\ x \in Nat /\ n = m + r /\ q \in Nat /\ r \in 0..(t - 1)
      /\ (x = q /\ 2 * r <= t) \/ (x = q + 1 /\ 2 * r >= t)
  <2> HIDE DEF n
  <2> QED
    BY <1>1, RoundedIsNear
<1>3. m \in Nat
  BY <1>2
<1>4. /\ q >= 10001 => m >= t * 10001
      /\ q <= 9999 => m <= t * 9999
      /\ q >= 10000 => m >= t * 10000
  <2> HIDE DEF q
  <2> QED
    BY <1>1, <1>2
<1> HIDE DEF q, r, m
<1>5. CASE p = t
  <2>1. n = t * 10000
    BY <1>5
  <2> HIDE DEF n
  <2>2. q = 10000
    BY <1>2, <1>3, <1>4, <2>1
  <2>3. r = 0
    <3>1. m >= t * 10000
      BY <1>4, <2>2
    <3> QED
      BY <1>2, <1>3, <2>1, <3>1
  <2> QED
    BY <1>2, <1>5, <2>2, <2>3, OnScale
<1>6. CASE p < t
  <2>1. n <= t * 10000 - 10000
    BY <1>6
  <2> HIDE DEF n
  <2>2. q <= 9999
    BY <1>1, <1>2, <1>3, <1>4, <2>1
  <2>3. q = 9999 => 2 * r < t
    <3>1. q = 9999 => m = t * 9999
      BY DEF m
    <3> QED
      BY <1>1, <1>2, <1>3, <2>1, <3>1
  <2>4. x < 10000
    BY <1>2, <2>2, <2>3
  <2> QED
    BY <1>2, <1>6, <2>4, OnScale
<1> QED
  BY <1>5, <1>6

\* A finding as an analyzer reports it, normalised.
Reportable ==
  [category : {"quality", "type_safety", "security", "complexity"}, severity : Severities,
   confidence : {"none"} \cup Confidences, count : Nat \ {0}]

LEMMA PlacesAreFinite ==
  ASSUME NEW fs \in Seq(Reportable), NEW category
  PROVE  IsFiniteSet(In(fs, category)) /\ In(fs, category) \subseteq DOMAIN fs
<1>1. DOMAIN fs = 1..Len(fs) /\ Len(fs) \in Nat
  OBVIOUS
<1>2. IsFiniteSet(1..Len(fs))
  BY <1>1, FS_Interval
<1> QED
  BY <1>1, <1>2, FS_Subset DEF In

\* Penalties are natural numbers; only an info about types costs nothing.
LEMMA PenaltyIsNat ==
  ASSUME NEW f \in Reportable
  PROVE  /\ Penalty(f, QUALITY_PENALTIES) \in Nat /\ Penalty(f, QUALITY_PENALTIES) >= 200
         /\ Penalty(f, TYPE_SAFETY_PENALTIES) \in Nat
         /\ f.severity = "info" => Penalty(f, TYPE_SAFETY_PENALTIES) = 0
         /\ f.severity # "info" => Penalty(f, TYPE_SAFETY_PENALTIES) >= 400
         /\ SecurityPenalty(f) \in Nat /\ SecurityPenalty(f) >= 150
<1>1. f.count \in Nat \ {0} /\ f.severity \in {"error", "warning", "info"}
  BY DEF Reportable, Severities
<1>2. f.confidence \in {"none", "low", "medium", "high"}
  BY DEF Reportable, Confidences
<1>3. Penalty(f, QUALITY_PENALTIES) \in Nat /\ Penalty(f, QUALITY_PENALTIES) >= 200
  <2>1. QUALITY_PENALTIES[f.severity] \in {1000, 500, 200}
    BY <1>1 DEF QUALITY_PENALTIES
  <2> QED
    BY <1>1, <2>1 DEF Penalty
<1>4. /\ Penalty(f, TYPE_SAFETY_PENALTIES) \in Nat
      /\ f.severity = "info" => Penalty(f, TYPE_SAFETY_PENALTIES) = 0
      /\ f.severity # "info" => Penalty(f, TYPE_SAFETY_PENALTIES) >= 400
  <2>1. f.severity = "info" => TYPE_SAFETY_PENALTIES[f.severity] = 0
    BY DEF TYPE_SAFETY_PENALTIES
  <2>2. f.severity # "info" => TYPE_SAFETY_PENALTIES[f.severity] \in {800, 400}
    BY <1>1 DEF TYPE_SAFETY_PENALTIES
  <2> QED
    BY <1>1, <2>1, <2>2 DEF Penalty
<1>5. SecurityPenalty(f) \in Nat /\ SecurityPenalty(f) >= 150
  <2> DEFINE s == SECURITY_SEVERITY_PENALTIES[f.severity]
             m == SECURITY_CONFIDENCE_MULTIPLIERS[f.confidence]
  <2>1. s \in {2500, 1000, 300}
    BY <1>1 DEF SECURITY_SEVERITY_PENALTIES
  <2>2. m \in {50, 75, 100}
    BY <1>2 DEF SECURITY_CONFIDENCE_MULTIPLIERS
  <2> HIDE DEF s, m
  <2>3. (s * m) \div 100 \in Nat /\ (s * m) \div 100 >= 150
    BY <2>1, <2>2
  <2>4. SecurityPenalty(f) = f.count * ((s * m) \div 100)
    BY DEF SecurityPenalty, s, m
  <2> QED
    BY <1>1, <2>3, <2>4
<1> QED
  BY <1>3, <1>4, <1>5

\* _clamp keeps a score on its scale; only a penalty takes anything off.
LEMMA ClampIsOnScale ==
  ASSUME NEW n \in Nat
  PROVE  /\ _clamp(10000 - n) \in Score
         /\ n = 0 => _clamp(10000 - n) = 10000
         /\ n >= 150 => _clamp(10000 - n) <= 9850
BY OnScale DEF _clamp

\* The penalties of one category add up to a natural number.
PenaltyTerms(fs, penalties) == [i \in DOMAIN fs |-> Penalty(fs[i], penalties)]
SecurityTerms(fs) == [i \in DOMAIN fs |-> SecurityPenalty(fs[i])]

LEMMA TermsAreNat ==
  ASSUME NEW fs \in Seq(Reportable)
  PROVE  /\ \A i \in DOMAIN fs : fs[i] \in Reportable
         /\ \A i \in DOMAIN fs : /\ PenaltyTerms(fs, QUALITY_PENALTIES)[i] \in Nat
                                 /\ PenaltyTerms(fs, TYPE_SAFETY_PENALTIES)[i] \in Nat
                                 /\ SecurityTerms(fs)[i] \in Nat
<1>1. \A i \in DOMAIN fs : fs[i] \in Reportable
  OBVIOUS
<1> QED
  BY <1>1, PenaltyIsNat DEF PenaltyTerms, SecurityTerms

\* Full marks for quality and security mean that nothing was found, for types that
\* there are infos at most; any other finding costs at least 150 hundredths.
LEMMA QualityScore ==
  ASSUME NEW fs \in Seq(Reportable)
  PROVE  /\ _penalty_score(fs, "quality", QUALITY_PENALTIES) \in Score
         /\ In(fs, "quality") = {} => _penalty_score(fs, "quality", QUALITY_PENALTIES) = 10000
         /\ In(fs, "quality") # {} => _penalty_score(fs, "quality", QUALITY_PENALTIES) <= 9850
<1> DEFINE S == In(fs, "quality")
           g == PenaltyTerms(fs, QUALITY_PENALTIES)
           n == SumFunctionOnSet(g, S)
<1>1. IsFiniteSet(S) /\ S \subseteq DOMAIN fs
  BY PlacesAreFinite
<1>2. \A i \in S : g[i] \in Nat
  BY <1>1, TermsAreNat
<1>3. n \in Nat /\ \A i \in S : g[i] <= n
  <2> HIDE DEF S, g
  <2> QED
    BY <1>1, <1>2, SumNat
<1>4. _penalty_score(fs, "quality", QUALITY_PENALTIES) = _clamp(10000 - n)
  BY DEF _penalty_score, PenaltyTerms
<1>5. S = {} => n = 0
  BY SumEmpty
<1>6. S # {} => n >= 150
  <2>1. \A i \in S : g[i] >= 200
    BY <1>1, TermsAreNat, PenaltyIsNat DEF PenaltyTerms
  <2> HIDE DEF S, g, n
  <2> QED
    BY <1>2, <1>3, <2>1
<1>7. /\ _clamp(10000 - n) \in Score
      /\ n = 0 => _clamp(10000 - n) = 10000
      /\ n >= 150 => _clamp(10000 - n) <= 9850
  <2> HIDE DEF n
  <2> QED
    BY <1>3, ClampIsOnScale
<1> HIDE DEF n
<1> QED
  BY <1>4, <1>5, <1>6, <1>7

LEMMA TypeSafetyScore ==
  ASSUME NEW fs \in Seq(Reportable)
  PROVE  /\ _penalty_score(fs, "type_safety", TYPE_SAFETY_PENALTIES) \in Score
         /\ (\A i \in In(fs, "type_safety") : fs[i].severity = "info") =>
              _penalty_score(fs, "type_safety", TYPE_SAFETY_PENALTIES) = 10000
         /\ (\E i \in In(fs, "type_safety") : fs[i].severity # "info") =>
              _penalty_score(fs, "type_safety", TYPE_SAFETY_PENALTIES) <= 9850
<1> DEFINE S == In(fs, "type_safety")
           g == PenaltyTerms(fs, TYPE_SAFETY_PENALTIES)
           n == SumFunctionOnSet(g, S)
<1>1. IsFiniteSet(S) /\ S \subseteq DOMAIN fs
  BY PlacesAreFinite
<1>2. \A i \in S : g[i] \in Nat
  BY <1>1, TermsAreNat
<1>3. n \in Nat /\ \A i \in S : g[i] <= n
  <2> HIDE DEF S, g
  <2> QED
    BY <1>1, <1>2, SumNat
<1>4. _penalty_score(fs, "type_safety", TYPE_SAFETY_PENALTIES) = _clamp(10000 - n)
  BY DEF _penalty_score, PenaltyTerms
<1>5. (\A i \in S : fs[i].severity = "info") => n = 0
  <2> SUFFICES ASSUME \A i \in S : fs[i].severity = "info" PROVE n = 0
    OBVIOUS
  <2>1. \A i \in S : g[i] = 0
    BY <1>1, TermsAreNat, PenaltyIsNat DEF PenaltyTerms
  <2> HIDE DEF S, g
  <2> QED
    BY <1>1, <2>1, SumZero
<1>6. (\E i \in S : fs[i].severity # "info") => n >= 150
  <2> SUFFICES ASSUME NEW i \in S, fs[i].severity # "info" PROVE n >= 150
    OBVIOUS
  <2>1. g[i] >= 400
    BY <1>1, TermsAreNat, PenaltyIsNat DEF PenaltyTerms
  <2> HIDE DEF S, g, n
  <2> QED
    BY <1>2, <1>3, <2>1
<1>7. /\ _clamp(10000 - n) \in Score
      /\ n = 0 => _clamp(10000 - n) = 10000
      /\ n >= 150 => _clamp(10000 - n) <= 9850
  <2> HIDE DEF n
  <2> QED
    BY <1>3, ClampIsOnScale
<1> HIDE DEF n
<1>8. (\A i \in S : fs[i].severity = "info") => _clamp(10000 - n) = 10000
  BY <1>5, <1>7
<1>9. (\E i \in S : fs[i].severity # "info") => _clamp(10000 - n) <= 9850
  BY <1>6, <1>7
<1> QED
  BY <1>4, <1>7, <1>8, <1>9

LEMMA SecurityScore ==
  ASSUME NEW fs \in Seq(Reportable)
  PROVE  /\ _security_score(fs) \in Score
         /\ In(fs, "security") = {} => _security_score(fs) = 10000
         /\ In(fs, "security") # {} => _security_score(fs) <= 9850
<1> DEFINE S == In(fs, "security")
           g == SecurityTerms(fs)
           n == SumFunctionOnSet(g, S)
<1>1. IsFiniteSet(S) /\ S \subseteq DOMAIN fs
  BY PlacesAreFinite
<1>2. \A i \in S : g[i] \in Nat
  BY <1>1, TermsAreNat
<1>3. n \in Nat /\ \A i \in S : g[i] <= n
  <2> HIDE DEF S, g
  <2> QED
    BY <1>1, <1>2, SumNat
<1>4. _security_score(fs) = _clamp(10000 - n)
  BY DEF _security_score, SecurityPenalties, SecurityTerms
<1>5. S = {} => n = 0
  BY SumEmpty
<1>6. S # {} => n >= 150
  <2>1. \A i \in S : g[i] >= 150
    BY <1>1, TermsAreNat, PenaltyIsNat DEF SecurityTerms
  <2> HIDE DEF S, g, n
  <2> QED
    BY <1>2, <1>3, <2>1
<1>7. /\ _clamp(10000 - n) \in Score
      /\ n = 0 => _clamp(10000 - n) = 10000
      /\ n >= 150 => _clamp(10000 - n) <= 9850
  <2> HIDE DEF n
  <2> QED
    BY <1>3, ClampIsOnScale
<1> HIDE DEF n
<1> QED
  BY <1>4, <1>5, <1>6, <1>7

LEMMA ComplexityScore ==
  ASSUME NEW c \in Nat \cup {Absent}
  PROVE  /\ _complexity_score(c) \in Score
         /\ c \in 0..5 => _complexity_score(c) = 10000
         /\ c \notin 0..5 => _complexity_score(c) <= 9850
BY OnScale DEF _complexity_score, Absent

\* What the runner counts.
RunnerOK(r) ==
  /\ r.kind \in {"none", "report", "infrastructure_error", "timed_out", "oom_killed", "sandbox_error"}
  /\ r.passed \in Nat /\ r.failed \in Nat /\ r.total \in Nat /\ r.total < 20000
  /\ r.passed + r.failed = r.total
  /\ r.kind # "report" => r.total = 0

LEMMA RunnerResults ==
  ASSUME config.instance \in Instances, NEW r \in DockerResults \cup LocalResults
  PROVE  RunnerOK(r)
<1>1. MaxTests \in Nat \ {0} /\ MaxTests < 20000
  BY InstanceBounds
<1>2. \A k \in {"infrastructure_error", "timed_out", "oom_killed", "sandbox_error"}, cut \in BOOLEAN :
        RunnerOK(Ended(k, cut))
  BY DEF RunnerOK, Ended
<1>3. \A cut, flaw : \A p \in Nat, f \in Nat :
        p + f <= MaxTests => RunnerOK(Counted(p, f, cut, flaw))
  BY <1>1 DEF RunnerOK, Counted
<1>4. \A cut, flaw : \A p \in 0..MaxTests : RunnerOK(Counted(p, MaxTests - p, cut, flaw))
  <2> SUFFICES ASSUME NEW p \in 0..MaxTests, NEW cut, NEW flaw
               PROVE  RunnerOK(Counted(p, MaxTests - p, cut, flaw))
    OBVIOUS
  <2>1. p \in Nat /\ MaxTests - p \in Nat /\ p + (MaxTests - p) <= MaxTests
    BY <1>1
  <2> QED
    BY <1>3, <2>1
<1>5. \A cut, flaw : RunnerOK(Counted(0, 0, cut, flaw)) /\ RunnerOK(Counted(0, 1, cut, flaw))
  BY <1>1, <1>3
<1> HIDE DEF RunnerOK, Ended, Counted
<1>6. CASE r \in DockerResults
  <2> DEFINE D == {Ended(k, cut) : k \in {"timed_out", "oom_killed", "sandbox_error"}, cut \in BOOLEAN}
             E == {Counted(0, 0, cut, f) : cut \in BOOLEAN,
                                           f \in IF request.parses THEN Flaws ELSE {"syntax"}}
             F == {Counted(p, MaxTests - p, cut, f) :
                     p \in IF request.parses THEN 0..MaxTests ELSE {}, cut \in BOOLEAN, f \in Flaws}
  <2>0. DockerResults = {Ended("infrastructure_error", FALSE)} \cup D \cup E \cup F
    BY DEF DockerResults
  <2>1. r = Ended("infrastructure_error", FALSE) \/ r \in D \/ r \in E \/ r \in F
    <3> HIDE DEF D, E, F
    <3> QED
      BY <1>6, <2>0
  <2>2. CASE r = Ended("infrastructure_error", FALSE)
    BY <1>2, <2>2
  <2>3. CASE r \in D
    BY <1>2, <2>3
  <2>4. CASE r \in E
    BY <1>5, <2>4
  <2>5. CASE r \in F
    BY <1>4, <2>5
  <2> HIDE DEF D, E, F
  <2> QED
    BY <2>1, <2>2, <2>3, <2>4, <2>5
<1>7. CASE r \in LocalResults
  <2> DEFINE L == {Counted(p, f, FALSE, w) : p \in 0..MaxTests, f \in 0..MaxTests, w \in Flaws}
             A == IF request.parses THEN {x \in L : x.total <= MaxTests} ELSE {Counted(0, 1, FALSE, "syntax")}
  <2>0. LocalResults = {Ended("infrastructure_error", FALSE), Ended("timed_out", FALSE)} \cup A
    BY DEF LocalResults
  <2>1. \/ r = Ended("infrastructure_error", FALSE) \/ r = Ended("timed_out", FALSE)
        \/ r = Counted(0, 1, FALSE, "syntax")
        \/ r \in L /\ r.total <= MaxTests
    <3> HIDE DEF L
    <3> QED
      BY <1>7, <2>0
  <2>2. CASE r = Ended("infrastructure_error", FALSE) \/ r = Ended("timed_out", FALSE)
    BY <1>2, <2>2
  <2>3. CASE r = Counted(0, 1, FALSE, "syntax")
    BY <1>5, <2>3
  <2>4. CASE r \in L /\ r.total <= MaxTests
    <3>1. r \in L /\ r.total <= MaxTests
      <4> HIDE DEF L
      <4> QED
        BY <2>4
    <3>2. PICK p \in 0..MaxTests, f \in 0..MaxTests :
            r.kind = "report" /\ r.passed = p /\ r.failed = f /\ r.total = p + f
      BY <3>1 DEF Counted
    <3> QED
      BY <1>1, <3>1, <3>2 DEF RunnerOK
  <2> HIDE DEF L, A
  <2> QED
    BY <2>1, <2>2, <2>3, <2>4
<1> QED
  BY <1>6, <1>7

\* calculate_score, dimension by dimension.
LEMMA BreakdownFields ==
  ASSUME NEW r, NEW fs, NEW c, NEW b \in calculate_score(r, fs, c)
  PROVE  /\ b.correctness \in IF r.total = 0 THEN {0} ELSE Rounded(r.passed * 10000, r.total)
         /\ b.code_quality =
              IF config.analysis THEN _penalty_score(fs, "quality", QUALITY_PENALTIES) ELSE Absent
         /\ b.type_safety =
              IF config.analysis THEN _penalty_score(fs, "type_safety", TYPE_SAFETY_PENALTIES) ELSE Absent
         /\ b.security = IF config.analysis THEN _security_score(fs) ELSE Absent
         /\ b.complexity = IF config.analysis THEN _complexity_score(c) ELSE Absent
         /\ DOMAIN b = {"correctness", "code_quality", "type_safety", "security", "complexity"}
<1>1. PICK x \in IF r.total = 0 THEN {0} ELSE Rounded(r.passed * 10000, r.total) :
        b = [correctness |-> x,
             code_quality |-> IF config.analysis
                              THEN _penalty_score(fs, "quality", QUALITY_PENALTIES) ELSE Absent,
             type_safety |-> IF config.analysis
                             THEN _penalty_score(fs, "type_safety", TYPE_SAFETY_PENALTIES) ELSE Absent,
             security |-> IF config.analysis THEN _security_score(fs) ELSE Absent,
             complexity |-> IF config.analysis THEN _complexity_score(c) ELSE Absent]
  BY DEF calculate_score
<1> QED
  BY <1>1

\* Nothing that an analyzer reports here is held against the source.
Clean(fs, c) ==
  /\ In(fs, "quality") = {} /\ In(fs, "security") = {}
  /\ \A i \in In(fs, "type_safety") : fs[i].severity = "info"
  /\ c \in 0..5

\* A breakdown of what the runner counted and the tools found: it is on its scale, and a
\* dimension has full marks or loses at least 150 hundredths, correctness at least one.
LEMMA BreakdownIsExact ==
  ASSUME NEW r, RunnerOK(r), NEW fs \in Seq(Reportable), NEW c \in Nat \cup {Absent},
         config.analysis, NEW b \in calculate_score(r, fs, c)
  PROVE  /\ b.correctness \in Score /\ b.code_quality \in Score /\ b.type_safety \in Score
         /\ b.security \in Score /\ b.complexity \in Score
         /\ Clean(fs, c) => /\ b.code_quality = 10000 /\ b.type_safety = 10000
                            /\ b.security = 10000 /\ b.complexity = 10000
         /\ ~Clean(fs, c) => \/ b.code_quality <= 9850 \/ b.type_safety <= 9850
                             \/ b.security <= 9850 \/ b.complexity <= 9850
<1> USE BreakdownFields
<1>1. b.correctness \in Score
  <2>1. CASE r.total = 0
    BY <2>1, OnScale
  <2>2. CASE r.total # 0
    BY <2>2, CorrectnessIsExact DEF RunnerOK
  <2> QED
    BY <2>1, <2>2
<1>2. /\ b.code_quality \in Score
      /\ In(fs, "quality") = {} => b.code_quality = 10000
      /\ In(fs, "quality") # {} => b.code_quality <= 9850
  BY QualityScore
<1>3. /\ b.type_safety \in Score
      /\ (\A i \in In(fs, "type_safety") : fs[i].severity = "info") => b.type_safety = 10000
      /\ (\E i \in In(fs, "type_safety") : fs[i].severity # "info") => b.type_safety <= 9850
  BY TypeSafetyScore
<1>4. /\ b.security \in Score
      /\ In(fs, "security") = {} => b.security = 10000
      /\ In(fs, "security") # {} => b.security <= 9850
  BY SecurityScore
<1>5. /\ b.complexity \in Score
      /\ c \in 0..5 => b.complexity = 10000
      /\ c \notin 0..5 => b.complexity <= 9850
  BY ComplexityScore
<1> QED
  BY <1>1, <1>2, <1>3, <1>4, <1>5 DEF Clean

\* Correctness is full exactly when tests ran and all of them passed.
LEMMA FullCorrectness ==
  ASSUME NEW r, RunnerOK(r), NEW fs, NEW c, NEW b \in calculate_score(r, fs, c)
  PROVE  /\ b.correctness \in Score
         /\ b.correctness = 10000 <=> (r.total > 0 /\ r.failed = 0)
<1>1. b.correctness \in IF r.total = 0 THEN {0} ELSE Rounded(r.passed * 10000, r.total)
  BY BreakdownFields
<1>2. CASE r.total = 0
  BY <1>1, <1>2, OnScale DEF RunnerOK
<1>3. CASE r.total # 0
  <2>0. /\ r.passed \in Nat /\ r.total \in Nat \ {0} /\ r.total < 20000 /\ r.passed <= r.total
        /\ b.correctness \in Rounded(r.passed * 10000, r.total)
    BY <1>1, <1>3 DEF RunnerOK
  <2>1. b.correctness \in Score /\ (b.correctness = 10000 <=> r.passed = r.total)
    BY <2>0, CorrectnessIsExact
  <2> QED
    BY <1>3, <2>1 DEF RunnerOK
<1> QED
  BY <1>2, <1>3

\* The final score of a measured breakdown is its weighted sum to the nearest hundredth,
\* and full only when every dimension is.
LEMMA FinalScore ==
  ASSUME NEW b,
         b.correctness \in Score, b.code_quality \in Score, b.type_safety \in Score,
         b.security \in Score, b.complexity \in Score,
         NEW x \in calculate_final_score(b)
  PROVE  /\ x \in Score
         /\ Weighted(b) \in Nat /\ Weighted(b) <= 100 * x + 50
         /\ b.correctness # 10000 => x # 10000
         /\ \/ b.code_quality <= 9850 \/ b.type_safety <= 9850
            \/ b.security <= 9850 \/ b.complexity <= 9850
            => x # 10000
         /\ (/\ b.correctness = 10000 /\ b.code_quality = 10000 /\ b.type_safety = 10000
             /\ b.security = 10000 /\ b.complexity = 10000) => x = 10000
<1>1. /\ b.correctness \in Nat /\ b.correctness <= 10000
      /\ b.code_quality \in Nat /\ b.code_quality <= 10000
      /\ b.type_safety \in Nat /\ b.type_safety <= 10000
      /\ b.security \in Nat /\ b.security <= 10000
      /\ b.complexity \in Nat /\ b.complexity <= 10000
  BY OnScale
<1>2. x \in Rounded(Weighted(b), 100)
  <2>1. Absent \notin {b.code_quality, b.type_safety, b.security, b.complexity}
    BY <1>1 DEF Absent
  <2> QED
    BY <2>1 DEF calculate_final_score
<1>3. Weighted(b) \in Nat /\ Weighted(b) <= 1000000
  BY <1>1 DEF Weighted
<1>4. x \in Nat /\ Weighted(b) <= 100 * x + 50 /\ 100 * x <= Weighted(b) + 50
  <2> DEFINE n == Weighted(b)
  <2>1. n \in Nat /\ x \in Rounded(n, 100)
    BY <1>2, <1>3
  <2> HIDE DEF n
  <2>2. n \in Nat /\ 100 \in Nat \ {0}
    BY <2>1
  <2>3. /\ x \in Nat
        /\ n = 100 * (n \div 100) + (n % 100) /\ n \div 100 \in Nat /\ n % 100 \in 0..99
        /\ \/ x = n \div 100 /\ 2 * (n % 100) <= 100
           \/ x = n \div 100 + 1 /\ 2 * (n % 100) >= 100
    BY <2>1 DEF Rounded
  <2>4. x \in Nat /\ n <= 100 * x + 50 /\ 100 * x <= n + 50
    BY <2>3
  <2> QED
    BY <2>4 DEF n
<1>5. x \in Score
  BY <1>3, <1>4, OnScale
<1>6. b.correctness # 10000 => Weighted(b) <= 1000000 - 60
  BY <1>1 DEF Weighted
<1>7. \/ b.code_quality <= 9850 \/ b.type_safety <= 9850
      \/ b.security <= 9850 \/ b.complexity <= 9850
      => Weighted(b) <= 1000000 - 750
  BY <1>1 DEF Weighted
<1>8. (/\ b.correctness = 10000 /\ b.code_quality = 10000 /\ b.type_safety = 10000
       /\ b.security = 10000 /\ b.complexity = 10000) => Weighted(b) = 1000000
  BY <1>1 DEF Weighted
<1> QED
  BY <1>3, <1>4, <1>5, <1>6, <1>7, <1>8

\* A finding more never lowers a sum of penalties.
LEMMA PlacesGrow ==
  ASSUME NEW fs \in Seq(Reportable), NEW f \in Reportable, NEW category
  PROVE  /\ Append(fs, f) \in Seq(Reportable)
         /\ In(fs, category) \subseteq In(Append(fs, f), category)
         /\ \A i \in DOMAIN fs : i \in DOMAIN Append(fs, f) /\ Append(fs, f)[i] = fs[i]
<1>1. /\ Append(fs, f) \in Seq(Reportable)
      /\ \A i \in DOMAIN fs : i \in DOMAIN Append(fs, f) /\ Append(fs, f)[i] = fs[i]
  OBVIOUS
<1> QED
  BY <1>1 DEF In

LEMMA ClampFalls ==
  ASSUME NEW m \in Nat, NEW n \in Nat, m <= n
  PROVE  _clamp(10000 - n) <= _clamp(10000 - m)
BY DEF _clamp

LEMMA MoreCosts ==
  ASSUME NEW fs \in Seq(Reportable), NEW f \in Reportable
  PROVE  LET gs == Append(fs, f) IN
         /\ _penalty_score(gs, "quality", QUALITY_PENALTIES)
              <= _penalty_score(fs, "quality", QUALITY_PENALTIES)
         /\ _penalty_score(gs, "type_safety", TYPE_SAFETY_PENALTIES)
              <= _penalty_score(fs, "type_safety", TYPE_SAFETY_PENALTIES)
         /\ _security_score(gs) <= _security_score(fs)
<1> DEFINE gs == Append(fs, f)
<1>1. /\ gs \in Seq(Reportable)
      /\ \A category : In(fs, category) \subseteq In(gs, category)
      /\ \A i \in DOMAIN fs : i \in DOMAIN gs /\ gs[i] = fs[i]
  BY PlacesGrow
<1> HIDE DEF gs
<1>2. /\ \A category : IsFiniteSet(In(gs, category)) /\ In(gs, category) \subseteq DOMAIN gs
      /\ \A category : IsFiniteSet(In(fs, category)) /\ In(fs, category) \subseteq DOMAIN fs
  BY <1>1, PlacesAreFinite
<1>3. ASSUME NEW penalties \in {QUALITY_PENALTIES, TYPE_SAFETY_PENALTIES}, NEW category
      PROVE  _penalty_score(gs, category, penalties) <= _penalty_score(fs, category, penalties)
  <2> DEFINE S == In(fs, category)
             T == In(gs, category)
             u == PenaltyTerms(fs, penalties)
             v == PenaltyTerms(gs, penalties)
  <2>1. IsFiniteSet(T) /\ S \in SUBSET T /\ IsFiniteSet(S)
    BY <1>1, <1>2
  <2>2. (\A i \in T : v[i] \in Nat) /\ (\A i \in S : u[i] \in Nat)
    BY <1>1, <1>2, TermsAreNat
  <2>3. \A i \in S : u[i] = v[i]
    BY <1>1, <1>2 DEF PenaltyTerms
  <2> HIDE DEF S, T, u, v
  <2>4. SumFunctionOnSet(u, S) <= SumFunctionOnSet(v, T)
    BY <2>1, <2>2, <2>3, SumMore
  <2>5. SumFunctionOnSet(u, S) \in Nat /\ SumFunctionOnSet(v, T) \in Nat
    BY <2>1, <2>2, SumNat
  <2>6. _clamp(10000 - SumFunctionOnSet(v, T)) <= _clamp(10000 - SumFunctionOnSet(u, S))
    BY <2>4, <2>5, ClampFalls
  <2> QED
    BY <2>6 DEF _penalty_score, PenaltyTerms, S, T, u, v
<1>4. _security_score(gs) <= _security_score(fs)
  <2> DEFINE S == In(fs, "security")
             T == In(gs, "security")
             u == SecurityTerms(fs)
             v == SecurityTerms(gs)
  <2>1. IsFiniteSet(T) /\ S \in SUBSET T /\ IsFiniteSet(S)
    BY <1>1, <1>2
  <2>2. (\A i \in T : v[i] \in Nat) /\ (\A i \in S : u[i] \in Nat)
    BY <1>1, <1>2, TermsAreNat
  <2>3. \A i \in S : u[i] = v[i]
    BY <1>1, <1>2 DEF SecurityTerms
  <2> HIDE DEF S, T, u, v
  <2>4. SumFunctionOnSet(u, S) <= SumFunctionOnSet(v, T)
    BY <2>1, <2>2, <2>3, SumMore
  <2>5. SumFunctionOnSet(u, S) \in Nat /\ SumFunctionOnSet(v, T) \in Nat
    BY <2>1, <2>2, SumNat
  <2>6. _clamp(10000 - SumFunctionOnSet(v, T)) <= _clamp(10000 - SumFunctionOnSet(u, S))
    BY <2>4, <2>5, ClampFalls
  <2> QED
    BY <2>6 DEF _security_score, SecurityPenalties, SecurityTerms, S, T, u, v
<1> QED
  BY <1>3, <1>4 DEF gs

-----------------------------------------------------------------------------
(***************************************************************************)
(* The actions.                                                            *)
(***************************************************************************)

LEMMA InitIInv == Init => IInv
<1> SUFFICES ASSUME Init PROVE IInv
  OBVIOUS
<1>1. PICK i \in Instances :
        config \in [backend : i.backends, analysis : BOOLEAN, repository : BOOLEAN, instance : {i}]
  BY DEF Init
<1>2. config.instance \in Instances /\ config.analysis \in BOOLEAN /\ config.repository \in BOOLEAN
  BY <1>1
<1>3. Range(Tools) = {"ruff", "mypy", "bandit", "radon"}
  BY DEF Range, Tools
<1>4. Typed
  <2>1. Idle \in [Streams -> Nat]
    BY DEF Idle
  <2>2. runner.passed \in Nat /\ runner.total \in Nat
    BY DEF Init, NoRunner, Ended
  <2>3. evidence \in [{"ruff", "mypy", "bandit", "radon"} -> {"none", "whole", "partial", "source"}]
    BY <1>3 DEF Init
  <2>4. /\ pc = "prepare" /\ proc = "none" /\ written = 0 /\ tool = 1
        /\ pipe \in [Streams -> Nat] /\ kept \in [Streams -> Nat]
    BY <2>1 DEF Init
  <2>5. truncated \in BOOLEAN /\ timed_out \in BOOLEAN
    BY DEF Init
  <2> QED
    BY <1>2, <2>2, <2>3, <2>4, <2>5 DEF Typed
<1>5. CaptureIsExact
  BY <1>2, InstanceBounds DEF Init, CaptureIsExact, Idle, Total, Streams
<1>6. Collected
  BY <1>2 DEF Init, Collected
<1>7. CommandOK /\ Verdict /\ EvidenceIsComplete /\ StoredBeforeAnswered
  BY DEF Init, CommandOK, Verdict, EvidenceIsComplete, StoredBeforeAnswered
<1> QED
  BY <1>4, <1>5, <1>6, <1>7 DEF IInv

\* prepare_request: the request is rejected or goes on.
LEMMA PrepareRequestKeeps ==
  ASSUME IInv, prepare_request
  PROVE  IInv'
<1> USE DEF IInv, prepare_request, End, commandVars, analysisVars
<1>1. Typed'
  BY DEF Typed, Idle
<1>2. CommandOK'
  BY DEF CommandOK, Typed, Idle
<1>3. CaptureIsExact'
  BY DEF CaptureIsExact, Limit
<1>4. Collected'
  BY DEF Collected, Typed
<1>5. Verdict'
  BY DEF Verdict, Typed
<1>6. EvidenceIsComplete'
  BY DEF EvidenceIsComplete, Verdict
<1>7. StoredBeforeAnswered'
  BY DEF StoredBeforeAnswered, Verdict
<1> QED
  BY <1>1, <1>2, <1>3, <1>4, <1>5, <1>6, <1>7

\* evaluate: the runner has a result.
LEMMA EvaluateKeeps ==
  ASSUME IInv, evaluate
  PROVE  IInv'
<1> USE DEF IInv, evaluate, End, Fault, commandVars, analysisVars
<1>1. Typed'
  <2>1. runner' \in DockerResults \cup LocalResults
    OBVIOUS
  <2>2. runner'.passed \in Nat /\ runner'.total \in Nat
    BY <2>1, RunnerCounts DEF Typed
  <2> QED
    BY <2>2 DEF Typed
<1>2. CommandOK'
  BY DEF CommandOK, Typed, Idle
<1>3. CaptureIsExact'
  BY DEF CaptureIsExact, Limit
<1>4. Collected'
  BY DEF Collected, Typed
<1>5. Verdict'
  BY DEF Verdict, Typed
<1>6. EvidenceIsComplete'
  BY DEF EvidenceIsComplete, Verdict
<1>7. StoredBeforeAnswered'
  BY DEF StoredBeforeAnswered, Verdict
<1> QED
  BY <1>1, <1>2, <1>3, <1>4, <1>5, <1>6, <1>7

\* spawn: the process of an analyzer is started, or cannot be.
LEMMA SpawnKeeps ==
  ASSUME IInv, spawn
  PROVE  IInv'
<1> USE DEF IInv, spawn, End, Fault, analysisVars
<1>1. Typed'
  BY DEF Typed, Idle
<1>2. CommandOK'
  BY DEF CommandOK, Typed, Idle
<1>3. CaptureIsExact'
  BY DEF CaptureIsExact, Limit
<1>4. Collected'
  BY DEF Collected, Typed
<1>5. Verdict'
  BY DEF Verdict, Typed
<1>6. EvidenceIsComplete'
  BY DEF EvidenceIsComplete, Verdict
<1>7. StoredBeforeAnswered'
  BY DEF StoredBeforeAnswered, Verdict
<1> QED
  BY <1>1, <1>2, <1>3, <1>4, <1>5, <1>6, <1>7

\* Write: the process writes a byte.
LEMMA WriteKeeps ==
  ASSUME IInv, NEW s \in Streams, Write(s)
  PROVE  IInv'
<1> USE DEF IInv, Write, analysisVars
<1>1. Typed'
  BY DEF Typed, Idle
<1>2. CommandOK'
  BY DEF CommandOK, Typed, Idle
<1>3. CaptureIsExact'
  <2>1. Total(pipe') = Total(pipe) + 1
    BY DEF Typed, Total, Streams
  <2>2. written \in Nat /\ Total(pipe) \in Nat
    BY DEF Typed, Total, Streams
  <2> QED
    BY <2>1, <2>2 DEF CaptureIsExact, Limit
<1>4. Collected'
  BY DEF Collected, Typed
<1>5. Verdict'
  BY DEF Verdict, Typed
<1>6. EvidenceIsComplete'
  BY DEF EvidenceIsComplete, Verdict
<1>7. StoredBeforeAnswered'
  BY DEF StoredBeforeAnswered, Verdict
<1> QED
  BY <1>1, <1>2, <1>3, <1>4, <1>5, <1>6, <1>7

\* Exit: the process ends by itself.
LEMMA ExitKeeps ==
  ASSUME IInv, NEW code, Exit(code)
  PROVE  IInv'
<1> USE DEF IInv, Exit, analysisVars
<1>1. Typed'
  BY DEF Typed, Idle
<1>2. CommandOK'
  BY DEF CommandOK, Typed, Idle
<1>3. CaptureIsExact'
  BY DEF CaptureIsExact, Limit
<1>4. Collected'
  BY DEF Collected, Typed
<1>5. Verdict'
  BY DEF Verdict, Typed
<1>6. EvidenceIsComplete'
  BY DEF EvidenceIsComplete, Verdict
<1>7. StoredBeforeAnswered'
  BY DEF StoredBeforeAnswered, Verdict
<1> QED
  BY <1>1, <1>2, <1>3, <1>4, <1>5, <1>6, <1>7

\* drain: one read takes what fits.
LEMMA DrainKeeps ==
  ASSUME IInv, NEW s \in Streams, drain(s)
  PROVE  IInv'
<1> USE DEF IInv, drain, analysisVars
<1>1. Typed'
  <2>1. PICK n \in 1..pipe[s] :
          LET remaining == Limit - Total(kept) IN
          /\ kept' = [kept EXCEPT ![s] = @ + (IF n < remaining THEN n ELSE remaining)]
          /\ truncated' = (truncated \/ n > remaining)
          /\ pipe' = [pipe EXCEPT ![s] = @ - n]
    OBVIOUS
  <2>2. Limit - Total(kept) \in Nat
    BY InstanceBounds DEF CaptureIsExact, Typed, Total, Streams
  <2>3. pipe[s] \in Nat /\ kept[s] \in Nat
    BY DEF Typed
  <2>4. pipe' \in [Streams -> Nat] /\ kept' \in [Streams -> Nat]
    BY <2>1, <2>2, <2>3 DEF Typed
  <2> QED
    BY <2>1, <2>4 DEF Typed
<1>2. CommandOK'
  BY DEF CommandOK, Typed, Idle
<1>3. CaptureIsExact'
  <2>1. PICK n \in 1..pipe[s] :
          LET remaining == Limit - Total(kept) IN
          /\ kept' = [kept EXCEPT ![s] = @ + (IF n < remaining THEN n ELSE remaining)]
          /\ truncated' = (truncated \/ n > remaining)
          /\ pipe' = [pipe EXCEPT ![s] = @ - n]
    OBVIOUS
  <2>2. Limit \in Nat \ {0} /\ Limit' = Limit /\ n \in Nat \ {0} /\ written' = written
    BY InstanceBounds DEF Typed, Limit
  <2>3. Total(pipe') = Total(pipe) - n
    BY <2>1, <2>2 DEF Typed, Total, Streams
  <2>4. Total(kept') = Total(kept) + (IF n < Limit - Total(kept) THEN n ELSE Limit - Total(kept))
    BY <2>1, <2>2 DEF Typed, Total, Streams
  <2>5. Total(pipe) \in Nat /\ Total(kept) \in Nat /\ written \in Nat
    BY DEF Typed, Total, Streams
  <2>6. truncated' <=> (truncated \/ n > Limit - Total(kept))
    BY <2>1
  <2> QED
    BY <2>2, <2>3, <2>4, <2>5, <2>6 DEF CaptureIsExact
<1>4. Collected'
  BY DEF Collected, Typed
<1>5. Verdict'
  BY DEF Verdict, Typed
<1>6. EvidenceIsComplete'
  BY DEF EvidenceIsComplete, Verdict
<1>7. StoredBeforeAnswered'
  BY DEF StoredBeforeAnswered, Verdict
<1> QED
  BY <1>1, <1>2, <1>3, <1>4, <1>5, <1>6, <1>7

\* wait: the process has ended in time.
LEMMA WaitKeeps ==
  ASSUME IInv, wait
  PROVE  IInv'
<1> USE DEF IInv, wait, commandVars, analysisVars
<1>1. Typed'
  BY DEF Typed, Idle
<1>2. CommandOK'
  BY DEF CommandOK, Typed, Idle
<1>3. CaptureIsExact'
  BY DEF CaptureIsExact, Limit
<1>4. Collected'
  BY DEF Collected, Typed
<1>5. Verdict'
  BY DEF Verdict, Typed
<1>6. EvidenceIsComplete'
  BY DEF EvidenceIsComplete, Verdict
<1>7. StoredBeforeAnswered'
  BY DEF StoredBeforeAnswered, Verdict
<1> QED
  BY <1>1, <1>2, <1>3, <1>4, <1>5, <1>6, <1>7

\* time_out: the time of the command is over, and its group is killed.
LEMMA TimeOutKeeps ==
  ASSUME IInv, time_out
  PROVE  IInv'
<1> USE DEF IInv, time_out, _terminate, analysisVars
<1>1. Typed'
  BY DEF Typed, Idle
<1>2. CommandOK'
  BY DEF CommandOK, Typed, Idle
<1>3. CaptureIsExact'
  BY DEF CaptureIsExact, Limit
<1>4. Collected'
  BY DEF Collected, Typed
<1>5. Verdict'
  BY DEF Verdict, Typed
<1>6. EvidenceIsComplete'
  BY DEF EvidenceIsComplete, Verdict
<1>7. StoredBeforeAnswered'
  BY DEF StoredBeforeAnswered, Verdict
<1> QED
  BY <1>1, <1>2, <1>3, <1>4, <1>5, <1>6, <1>7

\* analyzer_fails: the whole evaluation fails.
LEMMA AnalyzerFailsKeeps ==
  ASSUME IInv, analyzer_fails
  PROVE  IInv'
<1> USE DEF IInv, analyzer_fails, Gathered, AtEof, End, Fault, ResetCommand, analysisVars
<1>1. Typed'
  BY DEF Typed, Idle
<1>2. CommandOK'
  BY DEF CommandOK, Typed, Idle
<1>3. CaptureIsExact'
  BY InstanceBounds DEF CaptureIsExact, Typed, Idle, Total, Streams, Limit
<1>4. Collected'
  BY DEF Collected, Typed
<1>5. Verdict'
  BY DEF Verdict, Typed
<1>6. EvidenceIsComplete'
  BY DEF EvidenceIsComplete, Verdict
<1>7. StoredBeforeAnswered'
  BY DEF StoredBeforeAnswered, Verdict
<1> QED
  BY <1>1, <1>2, <1>3, <1>4, <1>5, <1>6, <1>7

\* analyze: a report is trusted.
LEMMA AnalyzeKeeps ==
  ASSUME IInv, analyze
  PROVE  IInv'
<1> USE DEF IInv, analyze, Gathered, AtEof, Trusted, Reported, ResetCommand
<1>1. Typed'
  <2>1. tool' \in 1..4
    BY ToolNames DEF Typed
  <2>2. evidence' \in [{"ruff", "mypy", "bandit", "radon"} -> {"none", "whole", "partial", "source"}]
    BY DEF Typed
  <2> QED
    BY <2>1, <2>2 DEF Typed, Idle
<1>2. CommandOK'
  BY DEF CommandOK, Typed, Idle
<1>3. CaptureIsExact'
  BY InstanceBounds DEF CaptureIsExact, Typed, Idle, Total, Streams, Limit
<1>4. Collected'
  <2>0. evidence' = [evidence EXCEPT ![Name] = "whole"]
    <3>1. Total(pipe) = 0
      BY DEF Idle, Total, Streams
    <3>2. Total(kept) = written
      BY <3>1, InstanceBounds DEF CaptureIsExact, Typed
    <3> QED
      BY <3>2 DEF CommandOK
  <2>1. tool < 4 \/ tool = 4
    BY DEF Typed
  <2>2. \A k \in 1..4 : k < tool => Tools[k] # Name
    BY ToolNames DEF Name, Typed
  <2>3. Name \in DOMAIN evidence
    BY ToolNames DEF Name, Typed
  <2>4. \A k \in 1..4 : k <= tool => evidence'[Tools[k]] \in {"whole", "source"}
    BY <2>2, <2>3, <2>0, ToolNames DEF Collected, Typed, Name
  <2>5. tool = 4 => \A t \in DOMAIN evidence' : evidence'[t] \in {"whole", "source"}
    BY <2>4, ToolNames DEF Typed
  <2> QED
    BY <2>1, <2>4, <2>5, ToolNames DEF Collected, Typed
<1>5. Verdict'
  BY DEF Verdict, Typed
<1>6. EvidenceIsComplete'
  BY DEF EvidenceIsComplete, Verdict
<1>7. StoredBeforeAnswered'
  BY DEF StoredBeforeAnswered, Verdict
<1> QED
  BY <1>1, <1>2, <1>3, <1>4, <1>5, <1>6, <1>7

\* analyze_unparsable: mypy is not asked about a source that cannot be parsed.
LEMMA AnalyzeUnparsableKeeps ==
  ASSUME IInv, analyze_unparsable
  PROVE  IInv'
<1> USE DEF IInv, analyze_unparsable, Reported, commandVars
<1>1. Typed'
  <2>1. tool' \in 1..4
    BY ToolNames DEF Typed
  <2>2. evidence' \in [{"ruff", "mypy", "bandit", "radon"} -> {"none", "whole", "partial", "source"}]
    BY DEF Typed
  <2> QED
    BY <2>1, <2>2 DEF Typed
<1>2. CommandOK'
  BY DEF CommandOK, Typed, Idle
<1>3. CaptureIsExact'
  BY DEF CaptureIsExact, Limit
<1>4. Collected'
  <2>1. tool < 4 \/ tool = 4
    BY DEF Typed
  <2>2. \A k \in 1..4 : k < tool => Tools[k] # Name
    BY ToolNames DEF Name, Typed
  <2>3. Name \in DOMAIN evidence
    BY ToolNames DEF Name, Typed
  <2>4. \A k \in 1..4 : k <= tool => evidence'[Tools[k]] \in {"whole", "source"}
    BY <2>2, <2>3, ToolNames DEF Collected, Typed, Name
  <2>5. tool = 4 => \A t \in DOMAIN evidence' : evidence'[t] \in {"whole", "source"}
    BY <2>4, ToolNames DEF Typed
  <2> QED
    BY <2>1, <2>4, <2>5, ToolNames DEF Collected, Typed
<1>5. Verdict'
  BY DEF Verdict, Typed
<1>6. EvidenceIsComplete'
  BY DEF EvidenceIsComplete, Verdict
<1>7. StoredBeforeAnswered'
  BY DEF StoredBeforeAnswered, Verdict
<1> QED
  BY <1>1, <1>2, <1>3, <1>4, <1>5, <1>6, <1>7

\* score: the evidence becomes a result.
LEMMA ScoreKeeps ==
  ASSUME IInv, score
  PROVE  IInv'
<1> USE DEF IInv, score, End, commandVars, analysisVars
<1>1. Typed'
  BY DEF Typed, Idle
<1>2. CommandOK'
  BY DEF CommandOK, Typed, Idle
<1>3. CaptureIsExact'
  BY DEF CaptureIsExact, Limit
<1>4. Collected'
  BY DEF Collected, Typed
<1>5. Verdict'
  BY DEF Verdict, Typed
<1>6. EvidenceIsComplete'
  <2> DEFINE c == IF complexity = <<>> THEN Absent ELSE complexity[1]
  <2>0. PICK b \in calculate_score(runner, findings, c) :
          \E x \in calculate_final_score(b) :
            result' = [status |-> IF runner.kind = "report" THEN "completed" ELSE "failed",
                       score |-> x, breakdown |-> b, findings |-> build_findings(runner)]
    OBVIOUS
  <2>1. result'.breakdown = b /\ result'.score \in calculate_final_score(b)
    BY <2>0
  <2>2. /\ Absent \in {b[d] : d \in DOMAIN b} <=> ~config.analysis
        /\ ~config.analysis => calculate_final_score(b) = {b.correctness}
    BY BreakdownIsMeasured DEF Typed
  <2>3. config.analysis => \A t \in DOMAIN evidence : evidence[t] \in {"whole", "source"}
    BY DEF Collected
  <2> QED
    BY <2>1, <2>2, <2>3 DEF EvidenceIsComplete
<1>7. StoredBeforeAnswered'
  BY DEF StoredBeforeAnswered, Verdict
<1> QED
  BY <1>1, <1>2, <1>3, <1>4, <1>5, <1>6, <1>7

\* create: the row is written, or its fate is unknown.
LEMMA CreateKeeps ==
  ASSUME IInv, create
  PROVE  IInv'
<1> USE DEF IInv, create, BrokenOff, End, Fault, commandVars, analysisVars
<1>1. Typed'
  BY DEF Typed, Idle
<1>2. CommandOK'
  BY DEF CommandOK, Typed, Idle
<1>3. CaptureIsExact'
  BY DEF CaptureIsExact, Limit
<1>4. Collected'
  BY DEF Collected, Typed
<1>5. Verdict'
  BY DEF Verdict, Typed
<1>6. EvidenceIsComplete'
  BY DEF EvidenceIsComplete, Verdict
<1>7. StoredBeforeAnswered'
  BY DEF StoredBeforeAnswered, Verdict
<1> QED
  BY <1>1, <1>2, <1>3, <1>4, <1>5, <1>6, <1>7

\* cancel: the task is cancelled at an await.
LEMMA CancelKeeps ==
  ASSUME IInv, cancel
  PROVE  IInv'
<1> USE DEF IInv, cancel, BrokenOff, End, ResetCommand, _terminate, commandVars, analysisVars
<1>1. Typed'
  <2>1. Idle \in [Streams -> Nat]
    BY DEF Idle
  <2>2. pc' \in {"done", "unwind"} /\ proc' \in {"none", "running", "exited", "killed"}
    BY DEF Typed
  <2>3. truncated' \in BOOLEAN /\ timed_out' \in BOOLEAN
    BY DEF Typed
  <2>4. pipe' \in [Streams -> Nat] /\ kept' \in [Streams -> Nat] /\ written' \in Nat
    BY <2>1 DEF Typed
  <2>5. UNCHANGED <<config, runner, tool, evidence>>
    OBVIOUS
  <2> QED
    BY <2>2, <2>3, <2>4, <2>5 DEF Typed
<1>2. CommandOK'
  BY DEF CommandOK, Typed, Idle
<1>3. CaptureIsExact'
  <2>1. CASE pc = "persist"
    BY <2>1 DEF CaptureIsExact, Limit
  <2>2. CASE pc = "command"
    BY <2>2 DEF CaptureIsExact, Limit
  <2>3. CASE pc \in {"test", "spawn", "drain", "unwind"}
    <3>1. /\ written' = 0 /\ pipe' = Idle /\ kept' = Idle /\ truncated' = FALSE
          /\ Limit' = Limit /\ Limit \in Nat \ {0}
      BY <2>3, InstanceBounds DEF Typed, Limit
    <3> QED
      BY <3>1 DEF CaptureIsExact, Idle, Total, Streams
  <2> QED
    BY <2>1, <2>2, <2>3
<1>4. Collected'
  BY DEF Collected, Typed
<1>5. Verdict'
  BY DEF Verdict, Typed
<1>6. EvidenceIsComplete'
  BY DEF EvidenceIsComplete, Verdict
<1>7. StoredBeforeAnswered'
  BY DEF StoredBeforeAnswered, Verdict
<1> QED
  BY <1>1, <1>2, <1>3, <1>4, <1>5, <1>6, <1>7

\* unwind: the cancelled command is drained.
LEMMA UnwindKeeps ==
  ASSUME IInv, unwind
  PROVE  IInv'
<1> USE DEF IInv, unwind, AtEof, End, ResetCommand, analysisVars
<1>1. Typed'
  BY DEF Typed, Idle
<1>2. CommandOK'
  BY DEF CommandOK, Typed, Idle
<1>3. CaptureIsExact'
  BY InstanceBounds DEF CaptureIsExact, Typed, Idle, Total, Streams, Limit
<1>4. Collected'
  BY DEF Collected, Typed
<1>5. Verdict'
  BY DEF Verdict, Typed
<1>6. EvidenceIsComplete'
  BY DEF EvidenceIsComplete, Verdict
<1>7. StoredBeforeAnswered'
  BY DEF StoredBeforeAnswered, Verdict
<1> QED
  BY <1>1, <1>2, <1>3, <1>4, <1>5, <1>6, <1>7

LEMMA DoneKeeps == ASSUME IInv, UNCHANGED vars PROVE IInv'
BY DEF IInv, Typed, CommandOK, CaptureIsExact, Limit, Collected, Verdict, EvidenceIsComplete,
       StoredBeforeAnswered, vars, commandVars, analysisVars

LEMMA NextIInv == IInv /\ [Next]_vars => IInv'
<1> SUFFICES ASSUME IInv, [Next]_vars PROVE IInv'
  OBVIOUS
<1>1. CASE Engine
  BY <1>1, PrepareRequestKeeps, EvaluateKeeps, SpawnKeeps, WaitKeeps, AnalyzerFailsKeeps,
     AnalyzeKeeps, AnalyzeUnparsableKeeps, ScoreKeeps, CreateKeeps, UnwindKeeps DEF Engine
<1>2. CASE time_out \/ cancel
  BY <1>2, TimeOutKeeps, CancelKeeps
<1>3. ASSUME NEW s \in Streams, Write(s) \/ drain(s) PROVE IInv'
  BY <1>3, WriteKeeps, DrainKeeps
<1>4. ASSUME NEW code \in 0..2, Exit(code) PROVE IInv'
  BY <1>4, ExitKeeps
<1>5. CASE UNCHANGED vars
  BY <1>5, DoneKeeps
<1> QED
  BY <1>1, <1>2, <1>3, <1>4, <1>5 DEF Next, Done

LEMMA AlwaysIInv == Spec => []IInv
<1> QED
  BY InitIInv, NextIInv, PTL DEF Spec
-----------------------------------------------------------------------------
(***************************************************************************)
(* What a result was scored on.  Gauged follows the findings and the       *)
(* complexity through the tools, Explained keeps a result tied to them and *)
(* to what the runner counted until it is answered, and Settled says what  *)
(* may be answered then.                                                   *)
(***************************************************************************)

Measurement == IF complexity = <<>> THEN Absent ELSE complexity[1]

\* Only a source that cannot be parsed has findings of complexity or no measure of it,
\* and radon has measured once it has reported.
Gauged ==
  /\ RunnerOK(runner)
  /\ findings \in Seq(Reportable)
  /\ Measurement \in Nat \cup {Absent}
  /\ complexity # <<>> /\ ~request.parses => complexity[1] = Absent
  /\ \A i \in DOMAIN findings : findings[i].category = "complexity" => ~request.parses
  /\ evidence["radon"] # "none" => complexity # <<>>

\* A result is the score of the findings and counts that are still there.
Explained ==
  result # NoResult =>
    /\ result.findings = build_findings(runner)
    /\ result.breakdown \in calculate_score(runner, findings, Measurement)
    /\ result.score \in calculate_final_score(result.breakdown)

\* A scored evaluation fails by a fault or for a U+0000 only, which no row holds, and
\* nothing is answered before it is scored.
Settled ==
  /\ faults \in Nat
  /\ pc = "persist" \/ answer = "result" => result # NoResult
  /\ answer = "infrastructure_error" /\ result # NoResult => faults > 0 \/ HoldsNul
  /\ pc # "done" => stored = NoResult
  /\ HoldsNul => stored = NoResult

Scored == Gauged /\ Explained /\ Settled

LEMMA InitScored == Init => Scored
<1> SUFFICES ASSUME Init PROVE Scored
  OBVIOUS
<1>1. RunnerOK(runner)
  BY DEF Init, NoRunner, Ended, RunnerOK
<1>2. findings = <<>> /\ findings \in Seq(Reportable) /\ complexity = <<>>
  BY DEF Init
<1>3. evidence["radon"] = "none"
  <2>1. "radon" \in Range(Tools)
    BY DEF Range, Tools
  <2> QED
    BY <2>1 DEF Init
<1>4. Gauged
  BY <1>1, <1>2, <1>3 DEF Gauged, Measurement
<1> QED
  BY <1>4 DEF Init, Scored, Explained, Settled

\* What the runner, the tools and the score leave alone keeps all of it.
LEMMA UntouchedKeeps ==
  ASSUME Scored, UNCHANGED <<config, request, runner, findings, complexity, evidence, result>>,
         Settled'
  PROVE  Scored'
BY DEF Scored, Gauged, Measurement, Explained, calculate_score

\* evaluate: the runner has counted.
LEMMA EvaluateScores ==
  ASSUME IInv, Scored, evaluate
  PROVE  Scored'
<1> USE DEF evaluate, End, Fault, commandVars, analysisVars
<1>1. result = NoResult /\ result' = NoResult
  BY DEF IInv, Verdict
<1>2. RunnerOK(runner')
  <2>1. runner' \in DockerResults \cup LocalResults
    OBVIOUS
  <2> QED
    BY <2>1, RunnerResults DEF IInv, Typed
<1>3. Gauged'
  BY <1>2 DEF Scored, Gauged, Measurement
<1>4. Settled'
  BY <1>1 DEF Scored, Settled
<1> QED
  BY <1>1, <1>3, <1>4 DEF Scored, Explained

\* What an analyzer reports is one finding or none.
LEMMA ReportsAreReportable ==
  ASSUME config.instance \in Instances, NEW t \in {"ruff", "mypy", "bandit", "radon"},
         NEW report \in Reports(t)
  PROVE  /\ report \in Seq(Reportable)
         /\ \A i \in DOMAIN report : report[i].category = "complexity" => ~request.parses
<1>1. Counts \subseteq Nat \ {0}
  BY Bounds DEF Counts
<1>2. ASSUME NEW k \in {"quality", "type_safety", "security"}, NEW s \in Severities,
             NEW c \in {"none"} \cup Confidences, NEW n \in Nat \ {0}
      PROVE  /\ <<Finding(k, s, c, n)>> \in Seq(Reportable)
             /\ \A i \in DOMAIN <<Finding(k, s, c, n)>> : <<Finding(k, s, c, n)>>[i].category # "complexity"
  BY DEF Finding, Reportable
<1>3. <<Finding("complexity", "error", "none", 1)>> \in Seq(Reportable)
  BY DEF Finding, Reportable, Severities
<1>4. <<>> \in Seq(Reportable) /\ DOMAIN <<>> = {}
  OBVIOUS
<1>5. ASSUME NEW k \in {"quality", "type_safety", "security"}, NEW cs, cs \subseteq {"none"} \cup Confidences,
             report \in FindingsOf(k, cs)
      PROVE  /\ report \in Seq(Reportable)
             /\ \A i \in DOMAIN report : report[i].category # "complexity"
  <2>1. PICK s \in Severities, c \in cs, n \in Counts : report = <<Finding(k, s, c, n)>>
    BY <1>5 DEF FindingsOf
  <2> QED
    BY <1>1, <1>2, <1>5, <2>1
<1>6. /\ {"error", "info"} \subseteq Severities /\ 1 \in Nat \ {0}
      /\ {"none"} \subseteq {"none"} \cup Confidences /\ Confidences \subseteq {"none"} \cup Confidences
  BY DEF Severities
<1>7. CASE t = "ruff"
  <2>1. report \in FindingsOf("quality", {"none"}) \/ report = <<>>
          \/ report = <<Finding("quality", "info", "none", 1)>>
    BY <1>7 DEF Reports, RuffReports
  <2> QED
    BY <1>2, <1>4, <1>5, <1>6, <2>1
<1>8. CASE t = "mypy"
  <2>1. report \in FindingsOf("type_safety", {"none"}) \/ report = <<>>
          \/ report = <<Finding("type_safety", "error", "none", 1)>>
    BY <1>8 DEF Reports, MypyReports
  <2> QED
    BY <1>2, <1>4, <1>5, <1>6, <2>1
<1>9. CASE t = "bandit"
  <2>1. report \in FindingsOf("security", Confidences) \/ report = <<>>
          \/ report = <<Finding("security", "error", "none", 1)>>
    BY <1>9 DEF Reports, BanditReports
  <2> QED
    BY <1>2, <1>4, <1>5, <1>6, <2>1
<1>10. CASE t = "radon"
  <2>1. report = <<>> \/ (~request.parses /\ report = <<Finding("complexity", "error", "none", 1)>>)
    BY <1>10 DEF Reports, RadonReports
  <2> QED
    BY <1>3, <1>4, <2>1
<1> QED
  BY <1>7, <1>8, <1>9, <1>10

\* Reported: the findings of one tool, and radon's measure, join what is scored.
LEMMA ReportedScores ==
  ASSUME IInv, Scored, NEW read, Reported(read), pc \in {"spawn", "drain"}, read # "none"
  PROVE  Scored'
<1> USE DEF Reported
<1>1. result = NoResult /\ result' = NoResult
  BY DEF IInv, Verdict
<1>2. Name \in {"ruff", "mypy", "bandit", "radon"}
  BY ToolNames DEF IInv, Typed, Name
<1>3. PICK report \in Reports(Name) : findings' = findings \o report
  OBVIOUS
<1>4. /\ report \in Seq(Reportable)
      /\ \A i \in DOMAIN report : report[i].category = "complexity" => ~request.parses
  BY <1>2, <1>3, ReportsAreReportable DEF IInv, Typed
<1>5. findings' \in Seq(Reportable)
  BY <1>3, <1>4 DEF Scored, Gauged
<1>6. \A i \in DOMAIN findings' : findings'[i].category = "complexity" => ~request.parses
  <2> SUFFICES ASSUME NEW i \in DOMAIN findings', findings'[i].category = "complexity"
               PROVE  ~request.parses
    OBVIOUS
  <2>1. findings \in Seq(Reportable)
    BY DEF Scored, Gauged
  <2>2. \/ i \in DOMAIN findings /\ findings'[i] = findings[i]
        \/ i - Len(findings) \in DOMAIN report /\ findings'[i] = report[i - Len(findings)]
    BY <1>3, <1>4, <2>1
  <2> QED
    BY <1>4, <2>2 DEF Scored, Gauged
<1>7. /\ Measurement' \in Nat \cup {Absent}
      /\ complexity' # <<>> /\ ~request.parses => complexity'[1] = Absent
  <2>1. CASE Name = "radon"
    <3>1. PICK c \in Measured : complexity' = <<c>>
      BY <2>1
    <3>2. c \in Nat \cup {Absent} /\ (~request.parses => c = Absent)
      BY Bounds DEF IInv, Typed, Measured, Complexities
    <3> QED
      BY <3>1, <3>2 DEF Measurement
  <2>2. CASE Name # "radon"
    BY <2>2 DEF Scored, Gauged, Measurement
  <2> QED
    BY <2>1, <2>2
<1>8. evidence'["radon"] # "none" => complexity' # <<>>
  <2>1. CASE Name = "radon"
    <3>1. \E c : complexity' = <<c>>
      BY <2>1
    <3> QED
      BY <3>1
  <2>2. CASE Name # "radon"
    BY <2>2 DEF Scored, Gauged, IInv, Typed
  <2> QED
    BY <2>1, <2>2
<1>9. Gauged'
  BY <1>5, <1>6, <1>7, <1>8 DEF Scored, Gauged
<1> QED
  BY <1>1, <1>9 DEF Scored, Explained, Settled

\* score: the evidence becomes a result.
LEMMA ScoreScores ==
  ASSUME IInv, Scored, score
  PROVE  Scored'
<1> USE DEF score, End, commandVars, analysisVars
<1>1. PICK b \in calculate_score(runner, findings, Measurement) :
        \E x \in calculate_final_score(b) :
          result' = [status |-> IF runner.kind = "report" THEN "completed" ELSE "failed",
                     score |-> x, breakdown |-> b, findings |-> build_findings(runner)]
  BY DEF Measurement
<1>2. /\ result'.findings = build_findings(runner)
      /\ result'.breakdown \in calculate_score(runner, findings, Measurement)
      /\ result'.score \in calculate_final_score(result'.breakdown)
  BY <1>1
<1>3. UNCHANGED <<config, request, runner, findings, complexity, evidence, faults>>
  OBVIOUS
<1>4. Gauged'
  BY <1>3 DEF Scored, Gauged, Measurement
<1>5. Explained'
  BY <1>2, <1>3 DEF Explained, calculate_score, Measurement
<1>6. result' # NoResult
  <2>1. result'.status \in {"completed", "failed"}
    BY <1>1
  <2> QED
    BY <2>1 DEF NoResult
<1>7. Settled'
  BY <1>3, <1>6 DEF Scored, Settled, IInv, Verdict
<1> QED
  BY <1>4, <1>5, <1>7 DEF Scored

\* A result is on its scale, so no constraint of the table refuses it.
LEMMA ScoredIsOnScale ==
  ASSUME IInv, Scored, result # NoResult
  PROVE  /\ result.score \in Score /\ result.breakdown.correctness \in Score
         /\ \A d \in DOMAIN result.breakdown : result.breakdown[d] \in Score \cup {Absent}
<1> DEFINE b == result.breakdown
<1>1. /\ b \in calculate_score(runner, findings, Measurement)
      /\ result.score \in calculate_final_score(b)
      /\ RunnerOK(runner) /\ findings \in Seq(Reportable) /\ Measurement \in Nat \cup {Absent}
  BY DEF Scored, Explained, Gauged
<1> HIDE DEF b
<1>2. DOMAIN b = {"correctness", "code_quality", "type_safety", "security", "complexity"}
  BY <1>1, BreakdownFields
<1>3. CASE config.analysis
  <2>1. /\ b.correctness \in Score /\ b.code_quality \in Score /\ b.type_safety \in Score
        /\ b.security \in Score /\ b.complexity \in Score
    BY <1>1, <1>3, BreakdownIsExact
  <2>2. result.score \in Score
    BY <1>1, <2>1, FinalScore
  <2> QED
    BY <1>2, <2>1, <2>2 DEF b
<1>4. CASE ~config.analysis
  <2>1. b.correctness \in Score
    BY <1>1, FullCorrectness
  <2>2. /\ b.code_quality = Absent /\ b.type_safety = Absent
        /\ b.security = Absent /\ b.complexity = Absent
    BY <1>1, <1>4, BreakdownFields
  <2>3. result.score = b.correctness
    BY <1>1, <2>2 DEF calculate_final_score
  <2> QED
    BY <1>2, <2>1, <2>2, <2>3 DEF b
<1> QED
  BY <1>3, <1>4

\* create: the row is written unless something fails.
LEMMA CreateScores ==
  ASSUME IInv, Scored, create
  PROVE  Scored'
<1> USE DEF create, End, Fault, commandVars, analysisVars
<1>1. result # NoResult => (Storable <=> ~HoldsNul)
  BY ScoredIsOnScale DEF Storable, Scored, Gauged, RunnerOK
<1>2. HoldsNul' = HoldsNul /\ UNCHANGED result
  BY DEF HoldsNul
<1>3. Settled'
  BY <1>1, <1>2 DEF Scored, Settled, BrokenOff
<1> QED
  BY <1>3, UntouchedKeeps

LEMMA NextScored == IInv /\ Scored /\ [Next]_vars => Scored'
<1> SUFFICES ASSUME IInv, Scored, [Next]_vars PROVE Scored'
  OBVIOUS
<1> USE DEF End, commandVars, analysisVars
<1>1. CASE prepare_request
  BY <1>1, UntouchedKeeps DEF prepare_request, Scored, Settled, IInv, Verdict, HoldsNul
<1>2. CASE evaluate
  BY <1>2, EvaluateScores
<1>3. CASE spawn
  BY <1>3, UntouchedKeeps DEF spawn, Fault, Scored, Settled, IInv, Verdict, HoldsNul
<1>4. CASE wait
  BY <1>4, UntouchedKeeps DEF wait, Scored, Settled, HoldsNul
<1>5. CASE analyzer_fails
  BY <1>5, UntouchedKeeps DEF analyzer_fails, Gathered, Fault, Scored, Settled, IInv, Verdict, HoldsNul
<1>6. CASE analyze
  BY <1>6, ReportedScores DEF analyze, Gathered
<1>7. CASE analyze_unparsable
  BY <1>7, ReportedScores DEF analyze_unparsable
<1>8. CASE score
  BY <1>8, ScoreScores
<1>9. CASE create
  BY <1>9, CreateScores
<1>10. CASE unwind
  BY <1>10, UntouchedKeeps DEF unwind, Scored, Settled, HoldsNul
<1>11. CASE time_out
  BY <1>11, UntouchedKeeps DEF time_out, Scored, Settled, HoldsNul
<1>12. CASE cancel
  BY <1>12, UntouchedKeeps DEF cancel, BrokenOff, Storable, Scored, Settled, HoldsNul
<1>13. ASSUME NEW s \in Streams, Write(s) \/ drain(s) PROVE Scored'
  BY <1>13, UntouchedKeeps DEF Write, drain, Scored, Settled, HoldsNul
<1>14. ASSUME NEW code \in 0..2, Exit(code) PROVE Scored'
  BY <1>14, UntouchedKeeps DEF Exit, Scored, Settled, HoldsNul
<1>15. CASE UNCHANGED vars
  BY <1>15, UntouchedKeeps DEF vars, Scored, Settled, HoldsNul
<1> QED
  BY <1>1, <1>2, <1>3, <1>4, <1>5, <1>6, <1>7, <1>8, <1>9, <1>10, <1>11, <1>12, <1>13, <1>14, <1>15
  DEF Next, Engine, Done

LEMMA AlwaysScored == Spec => [](IInv /\ Scored)
<1>1. Init => IInv /\ Scored
  BY InitIInv, InitScored
<1>2. IInv /\ Scored /\ [Next]_vars => (IInv /\ Scored)'
  BY NextIInv, NextScored
<1> QED
  BY <1>1, <1>2, PTL DEF Spec

LEMMA ScoresStayOnScale == IInv /\ Scored => ScoresOnScale
BY ScoredIsOnScale DEF ScoresOnScale

\* An end without counts is a finding itself, and counts that are not all passes leave one.
LEMMA LostPointsHaveFindings == IInv /\ Scored => LostPointsAreExplained
<1> SUFFICES ASSUME IInv, Scored, result # NoResult, result.breakdown.correctness < 10000
             PROVE  Range(build_findings(runner)) \ {"truncated", "syntax", "import"} # {}
  BY DEF LostPointsAreExplained, Scored, Explained
<1> DEFINE fs == build_findings(runner)
           Output == IF runner.truncated THEN <<"truncated">> ELSE <<>>
           Flaw == IF runner.flaw # "none" THEN <<runner.flaw>> ELSE <<>>
<1>1. /\ result.breakdown \in calculate_score(runner, findings, Measurement)
      /\ RunnerOK(runner)
  BY DEF Scored, Explained, Gauged
<1>2. ~(runner.total > 0 /\ runner.failed = 0)
  BY <1>1, FullCorrectness
<1>3. CASE runner.kind # "report"
  <2>1. fs = <<runner.kind>> \o Output
    BY <1>3 DEF build_findings
  <2>2. 1 \in DOMAIN fs /\ fs[1] = runner.kind
    BY <2>1
  <2>3. runner.kind \in {"none", "infrastructure_error", "timed_out", "oom_killed", "sandbox_error"}
    BY <1>1, <1>3 DEF RunnerOK
  <2> QED
    BY <2>2, <2>3 DEF Range
<1>4. CASE runner.kind = "report"
  <2> DEFINE word == IF runner.failed > 0 THEN "failed" ELSE "no_tests"
  <2>1. fs = (Flaw \o Output) \o <<word>>
    <3>1. runner.failed > 0 \/ runner.total = 0
      BY <1>1, <1>2 DEF RunnerOK
    <3> QED
      BY <1>4, <3>1 DEF build_findings
  <2>2. \E i \in DOMAIN fs : fs[i] = word
    <3> DEFINE head == Flaw \o Output
    <3>1. Len(head) \in Nat /\ head \in Seq({"truncated", runner.flaw})
      <4>1. Flaw \in Seq({"truncated", runner.flaw})
        <5>1. CASE runner.flaw # "none"
          BY <5>1
        <5>2. CASE runner.flaw = "none"
          BY <5>2
        <5> QED
          BY <5>1, <5>2
      <4>2. Output \in Seq({"truncated", runner.flaw})
        <5>1. CASE runner.truncated
          BY <5>1
        <5>2. CASE ~runner.truncated
          BY <5>2
        <5> QED
          BY <5>1, <5>2
      <4> HIDE DEF Flaw, Output
      <4> QED
        BY <4>1, <4>2
    <3>2. fs = head \o <<word>>
      BY <2>1
    <3> HIDE DEF head, word, fs
    <3>3. Len(head) + 1 \in DOMAIN fs /\ fs[Len(head) + 1] = word
      BY <3>1, <3>2
    <3> QED
      BY <3>3
  <2> QED
    BY <2>2 DEF Range
<1> QED
  BY <1>3, <1>4

\* With static analysis radon's measure is there, and without findings of complexity.
LEMMA MeasuredOnce ==
  ASSUME IInv, Scored, result # NoResult, config.analysis
  PROVE  /\ complexity[1] = Measurement
         /\ Clean(findings, Measurement) <=>
              /\ \A f \in Range(findings) : f.category = "type_safety" /\ f.severity = "info"
              /\ complexity[1] \in 0..5
<1>1. evidence["radon"] # "none"
  BY DEF IInv, EvidenceIsComplete, Typed
<1>2. complexity # <<>> /\ complexity[1] = Measurement
  BY <1>1 DEF Scored, Gauged, Measurement
<1>3. Measurement \in 0..5 => \A i \in DOMAIN findings : findings[i].category # "complexity"
  BY <1>2 DEF Scored, Gauged, Absent
<1>4. \A i \in DOMAIN findings :
        findings[i].category \in {"quality", "type_safety", "security", "complexity"}
  <2>1. \A i \in DOMAIN findings : findings[i] \in Reportable
    BY DEF Scored, Gauged
  <2> QED
    BY <2>1 DEF Reportable
<1>5. ASSUME Clean(findings, Measurement), NEW f \in Range(findings)
      PROVE  f.category = "type_safety" /\ f.severity = "info"
  <2>1. PICK i \in DOMAIN findings : f = findings[i]
    BY DEF Range
  <2> QED
    BY <1>3, <1>4, <1>5, <2>1 DEF Clean, In
<1>6. ASSUME \A f \in Range(findings) : f.category = "type_safety" /\ f.severity = "info",
             Measurement \in 0..5
      PROVE  Clean(findings, Measurement)
  BY <1>6 DEF Clean, In, Range
<1> QED
  BY <1>2, <1>5, <1>6 DEF Clean

LEMMA PerfectIsClean == IInv /\ Scored => PerfectMeansClean
<1> SUFFICES ASSUME IInv, Scored, result # NoResult
             PROVE  result.score = 10000 <=>
                      /\ runner.kind = "report" /\ runner.total > 0 /\ runner.failed = 0
                      /\ config.analysis =>
                           /\ \A f \in Range(findings) : f.category = "type_safety" /\ f.severity = "info"
                           /\ complexity[1] \in 0..5
  BY DEF PerfectMeansClean
<1> DEFINE b == result.breakdown
           c == Measurement
<1>1. /\ b \in calculate_score(runner, findings, c)
      /\ result.score \in calculate_final_score(b)
      /\ RunnerOK(runner) /\ findings \in Seq(Reportable) /\ c \in Nat \cup {Absent}
  BY DEF Scored, Explained, Gauged
<1>2. /\ b.correctness \in Score
      /\ b.correctness = 10000 <=> (runner.kind = "report" /\ runner.total > 0 /\ runner.failed = 0)
  <2> HIDE DEF b, c
  <2>1. b.correctness \in Score /\ (b.correctness = 10000 <=> (runner.total > 0 /\ runner.failed = 0))
    BY <1>1, FullCorrectness
  <2>2. runner.total > 0 => runner.kind = "report"
    BY <1>1 DEF RunnerOK
  <2> QED
    BY <2>1, <2>2
<1>3. CASE config.analysis
  <2>1. Clean(findings, c) <=>
          /\ \A f \in Range(findings) : f.category = "type_safety" /\ f.severity = "info"
          /\ complexity[1] \in 0..5
    BY <1>3, MeasuredOnce
  <2> HIDE DEF b, c
  <2>2. /\ b.correctness \in Score /\ b.code_quality \in Score /\ b.type_safety \in Score
        /\ b.security \in Score /\ b.complexity \in Score
        /\ Clean(findings, c) => /\ b.code_quality = 10000 /\ b.type_safety = 10000
                                 /\ b.security = 10000 /\ b.complexity = 10000
        /\ ~Clean(findings, c) => \/ b.code_quality <= 9850 \/ b.type_safety <= 9850
                                  \/ b.security <= 9850 \/ b.complexity <= 9850
    BY <1>1, <1>3, BreakdownIsExact
  <2>3. result.score = 10000 <=> (b.correctness = 10000 /\ Clean(findings, c))
    BY <1>1, <2>2, FinalScore
  <2> QED
    BY <1>2, <1>3, <2>1, <2>3
<1>4. CASE ~config.analysis
  <2> HIDE DEF b, c
  <2>1. b.code_quality = Absent
    BY <1>1, <1>4, BreakdownFields
  <2>2. result.score = b.correctness
    BY <1>1, <2>1 DEF calculate_final_score
  <2> QED
    BY <1>2, <1>4, <2>2
<1> QED
  BY <1>3, <1>4

LEMMA MoreFindingsCost == IInv /\ Scored => MoreFindingsNeverHelp
<1> SUFFICES ASSUME IInv, Scored, answer = "result", config.analysis,
                    NEW more \in FindingsLike("quality", {"none"}) \cup FindingsLike("type_safety", {"none"})
                                   \cup FindingsLike("security", Confidences),
                    NEW d \in calculate_score(runner, Append(findings, more), complexity[1]),
                    d.correctness = result.breakdown.correctness
             PROVE  Weighted(d) <= 100 * result.score + 50
  BY DEF MoreFindingsNeverHelp
<1> DEFINE b == result.breakdown
           c == Measurement
           gs == Append(findings, more)
<1>1. result # NoResult
  BY DEF Scored, Settled
<1>2. /\ b \in calculate_score(runner, findings, c)
      /\ result.score \in calculate_final_score(b)
      /\ RunnerOK(runner) /\ findings \in Seq(Reportable) /\ c \in Nat \cup {Absent}
  BY <1>1 DEF Scored, Explained, Gauged
<1>3. d \in calculate_score(runner, gs, c)
  BY <1>1, MeasuredOnce
<1>4. more \in Reportable
  BY DEF FindingsLike, Finding, Reportable, Severities, Confidences
<1> HIDE DEF b, c
<1>5. /\ b.correctness \in Score /\ b.code_quality \in Score /\ b.type_safety \in Score
      /\ b.security \in Score /\ b.complexity \in Score
  BY <1>2, BreakdownIsExact
<1>6. /\ d.correctness \in Score /\ d.code_quality \in Score /\ d.type_safety \in Score
      /\ d.security \in Score /\ d.complexity \in Score
  <2>1. gs \in Seq(Reportable)
    BY <1>2, <1>4
  <2> HIDE DEF gs
  <2> QED
    BY <1>2, <1>3, <2>1, BreakdownIsExact
<1>7. /\ d.code_quality <= b.code_quality /\ d.type_safety <= b.type_safety
      /\ d.security <= b.security /\ d.complexity = b.complexity /\ d.correctness = b.correctness
  <2>1. /\ _penalty_score(gs, "quality", QUALITY_PENALTIES)
             <= _penalty_score(findings, "quality", QUALITY_PENALTIES)
        /\ _penalty_score(gs, "type_safety", TYPE_SAFETY_PENALTIES)
             <= _penalty_score(findings, "type_safety", TYPE_SAFETY_PENALTIES)
        /\ _security_score(gs) <= _security_score(findings)
    BY <1>2, <1>4, MoreCosts
  <2>2. /\ b.code_quality = _penalty_score(findings, "quality", QUALITY_PENALTIES)
        /\ b.type_safety = _penalty_score(findings, "type_safety", TYPE_SAFETY_PENALTIES)
        /\ b.security = _security_score(findings) /\ b.complexity = _complexity_score(c)
    BY <1>2, BreakdownFields
  <2> HIDE DEF gs
  <2>3. /\ d.code_quality = _penalty_score(gs, "quality", QUALITY_PENALTIES)
        /\ d.type_safety = _penalty_score(gs, "type_safety", TYPE_SAFETY_PENALTIES)
        /\ d.security = _security_score(gs) /\ d.complexity = _complexity_score(c)
    BY <1>3, BreakdownFields
  <2> QED
    BY <2>1, <2>2, <2>3 DEF b
<1>8. Weighted(b) \in Nat /\ Weighted(b) <= 100 * result.score + 50 /\ result.score \in Nat
  <2>1. Weighted(b) \in Nat /\ Weighted(b) <= 100 * result.score + 50 /\ result.score \in Score
    BY <1>2, <1>5, FinalScore
  <2> QED
    BY <2>1, OnScale
<1>9. Weighted(d) <= Weighted(b) /\ Weighted(d) \in Nat
  <2>1. /\ d.correctness \in Nat /\ d.code_quality \in Nat /\ d.type_safety \in Nat
        /\ d.security \in Nat /\ d.complexity \in Nat
        /\ b.correctness \in Nat /\ b.code_quality \in Nat /\ b.type_safety \in Nat
        /\ b.security \in Nat /\ b.complexity \in Nat
    BY <1>5, <1>6, OnScale
  <2> QED
    BY <1>7, <2>1 DEF Weighted
<1> QED
  BY <1>8, <1>9


-----------------------------------------------------------------------------
(***************************************************************************)
(* The theorems.                                                           *)
(***************************************************************************)

\* command.py, engine.py: every score with static analysis rests on four reports, each
\* read from everything its analyzer wrote within the limit of the capture, for every
\* interleaving of the two drains and every size of their reads.
THEOREM EvidenceStaysWhole == Spec => []EvidenceIsWhole
<1>1. IInv => EvidenceIsWhole
  BY DEF IInv, EvidenceIsWhole
<1> QED
  BY <1>1, AlwaysIInv, PTL

\* command.py, run and _terminate: no analyzer process outlives its command, however
\* the command ends.
THEOREM ProcessesEndWithTheirCommand == Spec => []NoProcessOutlivesItsCommand
<1>1. IInv => NoProcessOutlivesItsCommand
  BY DEF IInv, CommandOK, NoProcessOutlivesItsCommand
<1> QED
  BY <1>1, AlwaysIInv, PTL

\* service.py, evaluate, and models.py, EvaluationRecord: a result is answered only when
\* the row that holds it is committed, no request leaves a part of a row, and whatever
\* was scored the table refuses for a U+0000 in the source or in a finding alone, which
\* no row ever holds.
THEOREM AnswersAreStored == Spec => []AnsweredIsStored
<1>1. IInv /\ Scored => AnsweredIsStored
  BY DEF IInv, Scored, Settled, AnsweredIsStored
<1> QED
  BY <1>1, AlwaysScored, PTL

\* scoring.py, findings.py: for any findings, any measured complexity and any number of
\* tests that a hundredth of a point can tell apart, a score is on its scale, full exactly
\* for a clean run of every test, explained by a finding where correctness was lost, and
\* not raised by a further finding.
THEOREM ScoresAreExplained == Spec => []ScoreIsExplained
<1>1. IInv /\ Scored => ScoreIsExplained
  BY ScoresStayOnScale, LostPointsHaveFindings, PerfectIsClean, MoreFindingsCost DEF ScoreIsExplained
<1> QED
  BY <1>1, AlwaysScored, PTL

-----------------------------------------------------------------------------
(***************************************************************************)
(* The AI assessment, for any number of judges, attempts, proposed tests   *)
(* and slots, and any threshold.                                           *)
(*                                                                         *)
(* First what its operators make of their arguments: lists in the order of *)
(* their numbers, the median, roundings and the proposals that are no      *)
(* duplicates.                                                             *)
(***************************************************************************)

LEMMA NumbersInOrder ==
  ASSUME NEW S \in SUBSET Nat, IsFiniteSet(S), NEW q, q = Listed(S)
  PROVE  /\ Cardinality(S) \in Nat /\ q \in Seq(S) /\ Len(q) = Cardinality(S)
         /\ \A i \in 1..Cardinality(S) : q[i] \in S
         /\ \A x \in S : \E i \in 1..Cardinality(S) : q[i] = x
         /\ \A i, k \in 1..Cardinality(S) : i < k => q[i] < q[k]
<1> DEFINE c == Cardinality(S)
           R == {p \in S \X S : Earlier(p[1], p[2])}
<1>0. \A x, y \in S : <<x, y>> \in R <=> Earlier(x, y)
  OBVIOUS
<1> HIDE DEF R
<1>1. StrictOrder(R, S)
  BY <1>0 DEF StrictOrder, Earlier
<1>2. \A x \in S : Under(R, S, x) = {y \in S : Earlier(y, x)}
  BY <1>0 DEF Under
<1>3. \A x, y \in S : <<x, y>> \in R => x < y
  BY <1>0 DEF Earlier
<1>4. q = [i \in 1..c |-> CHOOSE x \in S : Cardinality({y \in S : Earlier(y, x)}) = i - 1]
  BY DEF Listed, InOrder
<1>5. q = [i \in 1..c |-> CHOOSE x \in S : Cardinality(Under(R, S, x)) = i - 1]
  <2>1. \A i \in 1..c : (CHOOSE x \in S : Cardinality({y \in S : Earlier(y, x)}) = i - 1)
                          = (CHOOSE x \in S : Cardinality(Under(R, S, x)) = i - 1)
    BY <1>2
  <2> QED
    BY <1>4, <2>1
<1>6. /\ c \in Nat
      /\ \A i \in 1..c : q[i] \in S /\ Cardinality(Under(R, S, q[i])) = i - 1
      /\ \A x \in S : \E i \in 1..c : q[i] = x
      /\ \A i, k \in 1..c : i < k <=> <<q[i], q[k]>> \in R
  BY <1>1, <1>5, PlacedInOrder
<1>7. \A i, k \in 1..c : i < k => q[i] < q[k]
  BY <1>3, <1>6
<1>8. q \in Seq(S) /\ Len(q) = c
  <2>1. q = [i \in 1..c |-> q[i]]
    BY <1>5
  <2> HIDE DEF c
  <2>2. q \in [1..c -> S]
    BY <1>6, <2>1
  <2> QED
    BY <1>6, <2>2
<1> QED
  BY <1>6, <1>7, <1>8

Places(R, S) ==
  [i \in 1..Cardinality(S) |-> CHOOSE x \in S : Cardinality(Under(R, S, x)) = i - 1]

LEMMA PlacesAre ==
  ASSUME NEW S, IsFiniteSet(S), NEW R, StrictOrder(R, S)
  PROVE  \A i \in 1..Cardinality(S) : Places(R, S)[i] \in S
<1>1. PICK q : q = [i \in 1..Cardinality(S) |-> CHOOSE x \in S : Cardinality(Under(R, S, x)) = i - 1]
  OBVIOUS
<1>2. \A i \in 1..Cardinality(S) : q[i] \in S
  BY <1>1, PlacedInOrder
<1> QED
  BY <1>1, <1>2 DEF Places

\* sorted returns the values that it is given.
LEMMA AscendingIs ==
  ASSUME NEW n \in Nat, NEW s, DOMAIN s = 1..n, \A i \in 1..n : s[i] \in Nat
  PROVE  DOMAIN Ascending(s) = 1..n /\ \A i \in 1..n : Ascending(s)[i] \in Range(s)
<1> DEFINE D == 1..n
           Smaller(i, k) == s[i] < s[k] \/ (s[i] = s[k] /\ i < k)
           R == {p \in D \X D : Smaller(p[1], p[2])}
           q == Places(R, D)
<1>0. IsFiniteSet(D)
  BY FS_Interval
<1>1. Cardinality(D) = n
  <2>1. 1 \in Int /\ n \in Int
    OBVIOUS
  <2> QED
    BY <2>1, FS_Interval
<1>2. StrictOrder(R, D)
  <2>1. \A i, k \in D : <<i, k>> \in R <=> Smaller(i, k)
    OBVIOUS
  <2>2. \A i \in D : ~Smaller(i, i)
    OBVIOUS
  <2>3. \A i, k \in D : i # k => Smaller(i, k) \/ Smaller(k, i)
    OBVIOUS
  <2>4. \A i, j, k \in D : Smaller(i, j) /\ Smaller(j, k) => Smaller(i, k)
    OBVIOUS
  <2> HIDE DEF R, Smaller
  <2> QED
    BY <2>1, <2>2, <2>3, <2>4 DEF StrictOrder
<1>3. \A x \in D : Under(R, D, x) = {y \in D : Smaller(y, x)}
  BY DEF Under
<1>4. Ascending(s) =
        [i \in D |-> s[[j \in 1..Cardinality(D) |->
                          CHOOSE x \in D : Cardinality({y \in D : Smaller(y, x)}) = j - 1][i]]]
  BY DEF Ascending, InOrder
<1>5. \A j \in D : (CHOOSE x \in D : Cardinality({y \in D : Smaller(y, x)}) = j - 1)
                     = (CHOOSE x \in D : Cardinality(Under(R, D, x)) = j - 1)
  <2> HIDE DEF R, Smaller, D
  <2> QED
    BY <1>3
<1>6. PICK p : p = q
  OBVIOUS
<1>7. \A i \in D : p[i] \in D
  <2> HIDE DEF R, D
  <2>1. \A i \in 1..Cardinality(D) : p[i] \in D
    BY <1>0, <1>2, <1>6, PlacesAre
  <2> QED
    BY <1>1, <2>1 DEF D
<1>8. Ascending(s) = [i \in D |-> s[p[i]]]
  BY <1>1, <1>4, <1>5, <1>6 DEF Places
<1> QED
  BY <1>7, <1>8 DEF Range

LEMMA ExtremesAre ==
  ASSUME NEW b \in Nat, NEW S \in SUBSET (0..b), S # {}
  PROVE  /\ Max(S) \in S /\ \A x \in S : x <= Max(S)
         /\ Min(S) \in S /\ \A x \in S : Min(S) <= x
<1>1. S \in SUBSET Nat /\ \A x \in S : x <= b
  OBVIOUS
<1>2. \E x \in S : \A y \in S : y <= x
  BY <1>1, GreatestExists
<1>3. \E x \in S : \A y \in S : x <= y
  BY <1>1, LeastExists
<1>4. \E x \in S : \A y \in S : x >= y
  BY <1>1, <1>2
<1>5. Max(S) \in S /\ \A y \in S : Max(S) >= y
  BY <1>4 DEF Max
<1>6. Min(S) \in S /\ \A y \in S : Min(S) <= y
  BY <1>3 DEF Min
<1> QED
  BY <1>1, <1>5, <1>6

LEMMA OfTwo ==
  ASSUME NEW a \in Int, NEW b \in Int
  PROVE  /\ Max({a, b}) = IF a >= b THEN a ELSE b
         /\ Min({a, b}) = IF a <= b THEN a ELSE b
<1>1. \E x \in {a, b} : \A y \in {a, b} : x >= y
  OBVIOUS
<1>2. \E x \in {a, b} : \A y \in {a, b} : x <= y
  OBVIOUS
<1>3. Max({a, b}) \in {a, b} /\ \A y \in {a, b} : Max({a, b}) >= y
  BY <1>1 DEF Max
<1>4. Min({a, b}) \in {a, b} /\ \A y \in {a, b} : Min({a, b}) <= y
  BY <1>2 DEF Min
<1> QED
  BY <1>3, <1>4

\* round(x, 2) of the mean of two scores, and of two scores with their weights: it lies
\* between them.
LEMMA MeanIsBetween ==
  ASSUME NEW a \in Nat, NEW b \in Nat, NEW lo \in Nat, NEW hi \in Nat,
         lo <= a, lo <= b, a <= hi, b <= hi, NEW q \in Round2(a + b, 2)
  PROVE  q \in Int /\ lo <= q /\ q <= hi
<1>1. q \in Int /\ 2 * (a + b) - 2 <= 2 * q * 2 /\ 2 * q * 2 <= 2 * (a + b) + 2
  BY DEF Round2
<1> QED
  BY <1>1

LEMMA WeightedIsBetween ==
  ASSUME NEW a \in Nat, NEW b \in Nat, NEW lo \in Nat, NEW hi \in Nat,
         lo <= a, lo <= b, a <= hi, b <= hi, NEW q \in calculate_ai_score(a, b)
  PROVE  q \in Int /\ lo <= q /\ q <= hi
<1>1. /\ q \in Int
      /\ 2 * (7 * a + 3 * b) - 10 <= 2 * q * 10 /\ 2 * q * 10 <= 2 * (7 * a + 3 * b) + 10
  BY DEF calculate_ai_score, Round2
<1> QED
  BY <1>1

\* round(x, 2) of a share is a share.
LEMMA ShareIsScore ==
  ASSUME NEW n \in Nat, NEW d \in Nat \ {0}, n <= d, NEW q \in Round2(n * FullScore, d)
  PROVE  q \in 0..FullScore
<1>1. q \in Int
  <2>1. (n * 10000) \div d \in Int
    OBVIOUS
  <2> QED
    BY <2>1 DEF Round2, FullScore
<1>2. 2 * (n * 10000) - d <= 2 * q * d /\ 2 * q * d <= 2 * (n * 10000) + d
  BY DEF Round2, FullScore
<1>3. 2 * q * d <= 20000 * d + d
  BY <1>1, <1>2
<1>4. q <= 10000
  <2> SUFFICES ASSUME q >= 10001 PROVE FALSE
    BY <1>1
  <2>1. q * d >= 10001 * d
    BY <1>1
  <2> QED
    BY <1>1, <1>3, <2>1
<1>5. q >= 0
  <2> SUFFICES ASSUME q <= -1 PROVE FALSE
    BY <1>1
  <2>1. q * d <= (-1) * d
    BY <1>1
  <2> QED
    BY <1>1, <1>2, <2>1
<1> QED
  BY <1>1, <1>4, <1>5 DEF FullScore

\* The median of scores lies between the lowest and the highest of them.
LEMMA MedianIsBetween ==
  ASSUME NEW n \in Nat \ {0}, NEW s, DOMAIN s = 1..n, \A i \in 1..n : s[i] \in 0..FullScore,
         NEW v \in median(s)
  PROVE  /\ v \in 0..FullScore
         /\ Min(Range(s)) <= v /\ v <= Max(Range(s))
         /\ Max(Range(s)) \in Range(s) /\ Min(Range(s)) \in Range(s)
         /\ \A x \in Range(s) : Min(Range(s)) <= x /\ x <= Max(Range(s))
<1>0. FullScore \in Nat
  BY DEF FullScore
<1>1. PICK S : S = Range(s)
  OBVIOUS
<1>2. S \in SUBSET (0..FullScore) /\ S # {}
  <2>1. S = {s[i] : i \in 1..n} /\ 1 \in 1..n
    BY <1>1 DEF Range
  <2> QED
    BY <2>1
<1>3. /\ Max(S) \in S /\ \A x \in S : x <= Max(S)
      /\ Min(S) \in S /\ \A x \in S : Min(S) <= x
  BY <1>0, <1>2, ExtremesAre
<1>4. PICK t : t = Ascending(s)
  OBVIOUS
<1>5. DOMAIN t = 1..n /\ \A i \in 1..n : t[i] \in S
  <2>1. n \in Nat /\ \A i \in 1..n : s[i] \in Nat
    BY <1>0
  <2>2. DOMAIN Ascending(s) = 1..n /\ \A i \in 1..n : Ascending(s)[i] \in Range(s)
    BY <2>1, AscendingIs
  <2> QED
    BY <1>1, <1>4, <2>2
<1>6. Len(t) = n
  BY <1>5
<1>7. Min(S) \in 0..FullScore /\ Max(S) \in 0..FullScore
  BY <1>2, <1>3
<1>8. v \in Int /\ Min(S) <= v /\ v <= Max(S)
  <2>1. CASE n % 2 = 1
    <3>1. v = t[(n + 1) \div 2]
      BY <1>4, <1>6, <2>1 DEF median
    <3>2. (n + 1) \div 2 \in 1..n
      OBVIOUS
    <3>3. v \in S
      BY <1>5, <3>1, <3>2
    <3> QED
      BY <1>0, <1>2, <1>3, <3>3
  <2>2. CASE n % 2 # 1
    <3>1. v \in Round2(t[n \div 2] + t[n \div 2 + 1], 2)
      BY <1>4, <1>6, <2>2 DEF median
    <3>2. n \div 2 \in 1..n /\ n \div 2 + 1 \in 1..n
      BY <2>2
    <3>3. PICK a \in S, b \in S : v \in Round2(a + b, 2)
      BY <1>5, <3>1, <3>2
    <3>4. a \in Nat /\ b \in Nat /\ Min(S) \in Nat /\ Max(S) \in Nat
      BY <1>0, <1>2, <1>7
    <3>5. Min(S) <= a /\ Min(S) <= b /\ a <= Max(S) /\ b <= Max(S)
      BY <1>3
    <3>6. v \in Round2(a + b, 2)
      BY <3>3
    <3> QED
      BY <3>4, <3>5, <3>6, MeanIsBetween
  <2> QED
    BY <2>1, <2>2
<1>9. v \in 0..FullScore
  BY <1>0, <1>7, <1>8
<1> QED
  BY <1>1, <1>3, <1>8, <1>9

\* F are those of the first m proposals that are no duplicates.
FreshOf(draft, m, F) ==
  /\ F \in SUBSET (1..m)
  /\ \A i \in 1..m : i \in F <=> ~ \E j \in F : j < i /\ Same(draft[j], draft[i])

LEMMA FreshExists ==
  ASSUME NEW n \in Nat, NEW draft
  PROVE  \E F : FreshOf(draft, n, F)
<1> DEFINE C == {m \in Nat : ~ \E F : FreshOf(draft, m, F)}
<1> SUFFICES ASSUME C # {} PROVE FALSE
  OBVIOUS
<1>1. PICK m \in C : \A k \in C : m <= k
  <2>1. C \in SUBSET Nat
    OBVIOUS
  <2> HIDE DEF C
  <2> QED
    BY <2>1, LeastExists
<1>2. m \in Nat /\ ~ \E F : FreshOf(draft, m, F)
  BY <1>1
<1>3. m # 0
  <2>1. FreshOf(draft, 0, {})
    BY DEF FreshOf
  <2> QED
    BY <1>2, <2>1
<1>4. PICK F : FreshOf(draft, m - 1, F)
  <2>1. m - 1 \in Nat /\ ~(m <= m - 1)
    BY <1>2, <1>3
  <2> QED
    BY <1>1, <2>1
<1>5. F \in SUBSET (1..(m - 1)) /\ \A j \in F : j \in Nat /\ j < m
  BY <1>2, <1>4 DEF FreshOf
<1>6. \A i \in 1..m : i \in 1..(m - 1) \/ i = m
  BY <1>2
<1>7. \A i \in 1..(m - 1) : i \in 1..m /\ i < m /\ ~(m < i) /\ i # m
  BY <1>2
<1>8. m \in 1..m /\ ~(m < m)
  BY <1>2, <1>3
<1>9. \A i \in 1..(m - 1) : i \in F <=> ~ \E j \in F : j < i /\ Same(draft[j], draft[i])
  BY <1>4 DEF FreshOf
<1>10. m \notin F
  BY <1>5, <1>7
<1>11. CASE \E j \in F : Same(draft[j], draft[m])
  <2>1. FreshOf(draft, m, F)
    BY <1>5, <1>6, <1>7, <1>9, <1>10, <1>11 DEF FreshOf
  <2> QED
    BY <1>2, <2>1
<1>12. CASE ~ \E j \in F : Same(draft[j], draft[m])
  <2> DEFINE G == F \cup {m}
  <2>1. G \in SUBSET (1..m)
    BY <1>5, <1>7, <1>8
  <2>2. ASSUME NEW i \in 1..(m - 1)
        PROVE  i \in G <=> ~ \E j \in G : j < i /\ Same(draft[j], draft[i])
    <3>1. i \in G <=> i \in F
      BY <1>7
    <3>2. (\E j \in G : j < i /\ Same(draft[j], draft[i])) <=> \E j \in F : j < i /\ Same(draft[j], draft[i])
      BY <1>7
    <3> QED
      BY <1>9, <3>1, <3>2
  <2>3. m \in G /\ ~ \E j \in G : j < m /\ Same(draft[j], draft[m])
    BY <1>8, <1>12
  <2> HIDE DEF G
  <2>4. FreshOf(draft, m, G)
    BY <1>6, <2>1, <2>2, <2>3 DEF FreshOf
  <2> QED
    BY <1>2, <2>4
<1> QED
  BY <1>11, <1>12

\* deduplicate_and_validate keeps proposals of the draft, no two of them the same.
LEMMA KeptAreDistinct ==
  ASSUME NEW n \in Nat, NEW draft, DOMAIN draft = 1..n,
         NEW tidy, tidy = deduplicate_and_validate(draft)
  PROVE  /\ tidy \in SUBSET (1..n) /\ IsFiniteSet(tidy)
         /\ Cardinality(tidy) \in Nat /\ Cardinality(tidy) <= n
         /\ \A i, k \in tidy : i # k => ~Same(draft[i], draft[k])
<1>1. \E F \in SUBSET DOMAIN draft :
        \A i \in DOMAIN draft : i \in F <=> ~ \E j \in F : j < i /\ Same(draft[j], draft[i])
  BY FreshExists DEF FreshOf
<1>2. PICK F : F = Fresh(draft)
  OBVIOUS
<1>3. /\ F \in SUBSET (1..n)
      /\ \A i \in 1..n : i \in F <=> ~ \E j \in F : j < i /\ Same(draft[j], draft[i])
  BY <1>1, <1>2 DEF Fresh
<1>4. tidy \in SUBSET F
  BY <1>2 DEF deduplicate_and_validate
<1>5. tidy \in SUBSET (1..n)
  BY <1>3, <1>4
<1>6. IsFiniteSet(1..n) /\ Cardinality(1..n) = n
  <2>1. 1 \in Int /\ n \in Int
    OBVIOUS
  <2> QED
    BY <2>1, FS_Interval
<1>7. /\ IsFiniteSet(tidy) /\ Cardinality(tidy) \in Nat /\ Cardinality(tidy) <= n
  BY <1>5, <1>6, FS_Subset, FS_CardinalityType
<1>8. ASSUME NEW i \in tidy, NEW k \in tidy, i < k PROVE ~Same(draft[i], draft[k])
  BY <1>3, <1>4, <1>8
<1>9. \A x, y : Same(x, y) <=> Same(y, x)
  BY DEF Same
<1>10. ASSUME NEW i \in tidy, NEW k \in tidy, i # k PROVE ~Same(draft[i], draft[k])
  <2>1. i < k \/ k < i
    BY <1>5, <1>10
  <2> QED
    BY <1>8, <1>9, <2>1
<1> QED
  BY <1>5, <1>7, <1>10

-----------------------------------------------------------------------------
(***************************************************************************)
(* What the judges answered, in the order of their models.                 *)
(***************************************************************************)

\* What a call may have ended with.
Given(k) ==
  /\ outcome[k].code \in Codes \cup {None, "ok"}
  /\ k \in Judges /\ outcome[k].code = "ok" => outcome[k].score \in JudgeScores
  /\ k \in Judges /\ outcome[k].code # "ok" => outcome[k].score = Missing
  /\ k = Generator /\ outcome[k].code = "ok" => outcome[k].draft \in Drafts
  /\ k \in Judges => outcome[k].code # "long_value_error"
  /\ outcome[k].nul \in BOOLEAN

LEMMA ScoreIsGiven ==
  ASSUME NEW k \in Judges, Given(k)
  PROVE  /\ FullScore \in Nat /\ Missing \notin 0..FullScore
         /\ outcome[k].code = "ok" => outcome[k].score \in 0..FullScore
         /\ outcome[k].code = "ok" <=> outcome[k].score # Missing
<1>1. FullScore \in Nat /\ Missing \notin 0..FullScore
  BY DEF FullScore, Missing
<1>2. outcome[k].code = "ok" => outcome[k].score \in 0..FullScore
  BY AIAssumption DEF Given
<1>3. outcome[k].code # "ok" => outcome[k].score = Missing
  BY DEF Given
<1> QED
  BY <1>1, <1>2, <1>3

\* s has the scores of the n judges that answered, and no others.
ScoresOf(n, s) ==
  /\ n \in Nat /\ (Answered # {} <=> n # 0)
  /\ DOMAIN s = 1..n /\ \A i \in 1..n : s[i] \in 0..FullScore
  /\ \A k \in Answered : \E i \in 1..n : s[i] = outcome[k].score
  /\ \A i \in 1..n : \E k \in Answered : s[i] = outcome[k].score
  /\ InModelOrder(s)

LEMMA ValidIs ==
  ASSUME \A k \in Judges : Given(k), NEW n, n = Cardinality(Answered), NEW s, s = Valid
  PROVE  ScoresOf(n, s)
<1>1. PICK q : q = Listed(Answered)
  OBVIOUS
<1>2. Answered \in SUBSET Nat /\ IsFiniteSet(Answered)
  <2>1. JudgeCount \in Int /\ 1 \in Int
    BY AIAssumption
  <2>2. IsFiniteSet(1..JudgeCount)
    BY <2>1, FS_Interval
  <2>3. Answered \in SUBSET (1..JudgeCount)
    BY DEF Answered, Judges
  <2>4. IsFiniteSet(Answered)
    BY <2>2, <2>3, FS_Subset
  <2> QED
    BY <2>1, <2>3, <2>4
<1>3. /\ Cardinality(Answered) \in Nat /\ q \in Seq(Answered) /\ Len(q) = Cardinality(Answered)
      /\ \A i \in 1..Cardinality(Answered) : q[i] \in Answered
      /\ \A x \in Answered : \E i \in 1..Cardinality(Answered) : q[i] = x
      /\ \A i, k \in 1..Cardinality(Answered) : i < k => q[i] < q[k]
  BY <1>1, <1>2, NumbersInOrder
<1>4. s = [i \in 1..n |-> outcome[q[i]].score]
  BY <1>1 DEF Valid
<1>5. \A i \in 1..n : q[i] \in Answered /\ s[i] = outcome[q[i]].score
  BY <1>3, <1>4
<1>6. \A k \in Answered : k \in Judges /\ outcome[k].score \in 0..FullScore
  BY ScoreIsGiven DEF Answered
<1>7. \A k \in Answered : \E i \in 1..n : s[i] = outcome[k].score
  BY <1>3, <1>5
<1>8. Answered # {} <=> n # 0
  BY <1>2, FS_EmptySet
<1>9. InModelOrder(s)
  <2>1. DOMAIN s = 1..n /\ q \in [1..n -> Judges] /\ DOMAIN q = 1..n
    BY <1>3, <1>4, <1>5, <1>6
  <2>2. Range(q) = {k \in Judges : outcome[k].score # Missing}
    <3>1. Range(q) = Answered
      BY <1>3, <2>1 DEF Range
    <3>2. \A k \in Judges : outcome[k].code = "ok" <=> outcome[k].score # Missing
      BY ScoreIsGiven
    <3> QED
      BY <3>1, <3>2 DEF Answered
  <2>3. \A i, k \in DOMAIN s : i < k => q[i] < q[k]
    BY <1>3, <2>1
  <2>4. \A i \in DOMAIN s : s[i] = outcome[q[i]].score
    BY <1>5, <2>1
  <2> QED
    BY <2>1, <2>2, <2>3, <2>4 DEF InModelOrder
<1> QED
  BY <1>3, <1>4, <1>5, <1>6, <1>7, <1>8, <1>9 DEF ScoresOf

\* disputed: two judges are further apart than the threshold.
LEMMA DisputedIs ==
  ASSUME \A k \in Judges : Given(k)
  PROVE  /\ Disputed <=> \E i, k \in DOMAIN Valid : Valid[i] - Valid[k] > Threshold
         /\ Disputed <=> \E i, k \in Answered : outcome[i].score - outcome[k].score > Threshold
<1>1. PICK n, s : n = Cardinality(Answered) /\ s = Valid
  OBVIOUS
<1>2. /\ n \in Nat /\ (Answered # {} <=> n # 0)
      /\ DOMAIN s = 1..n /\ \A i \in 1..n : s[i] \in 0..FullScore
      /\ \A k \in Answered : \E i \in 1..n : s[i] = outcome[k].score
      /\ \A i \in 1..n : \E k \in Answered : s[i] = outcome[k].score
      /\ InModelOrder(s)
  <2>1. ScoresOf(n, s)
    BY <1>1, ValidIs
  <2> QED
    BY <2>1 DEF ScoresOf
<1>3. PICK S : S = Range(s)
  OBVIOUS
<1>4. FullScore \in Nat /\ S = {s[i] : i \in 1..n}
  BY <1>2, <1>3 DEF Range, FullScore
<1>5. S \in SUBSET (0..FullScore)
  BY <1>2, <1>4
<1>6. (\E i, k \in DOMAIN s : s[i] - s[k] > Threshold) <=> \E x, y \in S : x - y > Threshold
  <2>1. DOMAIN s = 1..n /\ \A i \in 1..n : s[i] \in S
    BY <1>2, <1>4
  <2>2. \A x \in S : \E i \in 1..n : x = s[i]
    BY <1>4
  <2> QED
    BY <2>1, <2>2
<1>7. (\E i, k \in Answered : outcome[i].score - outcome[k].score > Threshold)
        <=> \E x, y \in S : x - y > Threshold
  <2>1. ASSUME NEW k \in Answered PROVE outcome[k].score \in S
    <3>1. PICK i \in 1..n : s[i] = outcome[k].score
      BY <1>2
    <3> QED
      BY <1>4, <3>1
  <2>2. ASSUME NEW x \in S PROVE \E k \in Answered : x = outcome[k].score
    <3>1. PICK i \in 1..n : x = s[i]
      BY <1>4
    <3>2. PICK k \in Answered : s[i] = outcome[k].score
      BY <1>2
    <3> QED
      BY <3>1, <3>2
  <2> QED
    BY <2>1, <2>2
<1>8. Disputed <=> \E x, y \in S : x - y > Threshold
  <2>1. CASE n = 0
    <3>1. S = {} /\ ~Disputed
      BY <1>2, <1>4, <2>1 DEF Disputed
    <3> QED
      BY <3>1
  <2>2. CASE n # 0
    <3>1. S # {}
      <4>1. s[1] \in S
        BY <1>2, <1>4, <2>2
      <4> QED
        BY <4>1
    <3>2. /\ Max(S) \in S /\ \A x \in S : x <= Max(S)
          /\ Min(S) \in S /\ \A x \in S : Min(S) <= x
      BY <1>4, <1>5, <3>1, ExtremesAre
    <3>3. Disputed <=> Max(S) - Min(S) > Threshold
      BY <1>1, <1>2, <1>3, <2>2 DEF Disputed, spread
    <3>4. Threshold \in Int /\ \A x \in S : x \in Int
      BY <1>4, <1>5, AIAssumption
    <3>5. ASSUME NEW x \in S, NEW y \in S, x - y > Threshold PROVE Max(S) - Min(S) > Threshold
      <4>1. Max(S) \in Int /\ Min(S) \in Int /\ x \in Int /\ y \in Int /\ x <= Max(S) /\ Min(S) <= y
        BY <3>2, <3>4
      <4> QED
        BY <3>4, <3>5, <4>1
    <3> QED
      BY <3>2, <3>3, <3>5
  <2> QED
    BY <2>1, <2>2
<1> QED
  BY <1>1, <1>6, <1>7, <1>8

-----------------------------------------------------------------------------
(***************************************************************************)
(* The invariant of an assessment.  A call is under way only in its phase, *)
(* so what was answered stays as it was; CasesOK follows the counters      *)
(* through the tests, TestsOK says what came of them, and Assessed ties    *)
(* the assessment to the answers it was made from.                         *)
(***************************************************************************)

CallOK(k) ==
  /\ Given(k)
  /\ at[k] \in {"slot", "request", "pause"} =>
       (k \in Judges /\ phase = "judges") \/ (k = Generator /\ phase = "generate")
  /\ at[k] = "pause" => attempt[k] < MaxAttempts

AITyped ==
  /\ setup \in Setups
  /\ phase \in {"judges", "generate", "cases", "conclude", "done", "stored", "refused", "read"}
  /\ at \in [Calls -> {"idle", "slot", "request", "pause", "ended"}]
  /\ attempt \in [Calls -> 1..MaxAttempts]
  /\ outcome = [k \in Calls |-> outcome[k]]
  /\ counts \in [generated : Nat, accepted : Nat, reference : Nat, passed : Nat]

CasesOK ==
  /\ outcome[Generator].code = "ok"
  /\ tests \in Seq(deduplicate_and_validate(outcome[Generator].draft))
  /\ counts.passed <= counts.reference /\ counts.reference <= counts.accepted
  /\ counts.accepted + Len(tests) <= counts.generated
  /\ counts.generated <= MaxAdversarialTests
  /\ counts.generated = Len(outcome[Generator].draft)

TestsOK ==
  /\ adversarial.status \in {"skipped", "unavailable", "completed"}
  /\ adversarial.reference \in Nat
  /\ CountsAgree
  /\ adversarial.status = "completed" =>
       adversarial.robustness \in 0..FullScore /\ adversarial.reference > 0
  /\ adversarial.status # "completed" => adversarial.robustness = Missing
  /\ adversarial.nul \in BOOLEAN
  /\ adversarial.nul => outcome[Generator].code = "ok" /\ WroteNul(Generator)
  /\ adversarial.reason = "long_value_error" => outcome[Generator].code = "long_value_error"

Assessed ==
  \E judge \in IF Answered = {} THEN {Missing} ELSE median(Valid) :
  \E total \in IF Status = "completed"
                 THEN calculate_ai_score(judge, adversarial.robustness) ELSE {Missing} :
    assessment = [status |-> Status, reason |-> Reason, score |-> total,
                  judge |-> judge, disputed |-> Disputed,
                  spread |-> IF Answered = {} THEN Missing ELSE spread(Valid),
                  judges |-> JudgeResults, nul |-> JudgesNul, adversarial |-> adversarial]

Unassessed == assessment = _assessment(None, None)

AIFlow ==
  /\ phase \in {"judges", "generate", "cases"} =>
       setup.gate = "open" /\ Unassessed /\ adversarial = _empty_adversarial(None, None)
  /\ phase = "cases" => CasesOK
  /\ phase = "conclude" => setup.gate = "open" /\ Unassessed /\ TestsOK
  /\ phase \in {"done", "stored", "refused", "read"} /\ setup.gate = "open" => Assessed /\ TestsOK
  /\ phase \in {"done", "stored", "refused", "read"} /\ setup.gate # "open" =>
       assessment = Gate(setup.gate) /\ adversarial = _empty_adversarial(None, None)
  /\ phase = "refused" => UnstorableText
  /\ phase = "stored" => row = evaluation_record_from_snapshot(assessment)
  /\ phase = "read" => shown = _snapshot_from_record(evaluation_record_from_snapshot(assessment))

AIInv == AITyped /\ (\A k \in Calls : CallOK(k)) /\ AIFlow

\* assess: what the assessment of an open gate says.
LEMMA AssessedIs ==
  ASSUME \A k \in Judges : Given(k), Assessed, TestsOK
  PROVE  /\ assessment.status = Status /\ assessment.disputed = Disputed
         /\ assessment.judges = Valid /\ assessment.adversarial = adversarial
         /\ assessment = [status |-> assessment.status, reason |-> assessment.reason,
                          score |-> assessment.score, judge |-> assessment.judge,
                          disputed |-> assessment.disputed, spread |-> assessment.spread,
                          judges |-> assessment.judges, nul |-> assessment.nul,
                          adversarial |-> assessment.adversarial]
         /\ assessment.reason = Reason /\ assessment.nul = JudgesNul
         /\ assessment.judge = Missing \/ assessment.judge \in 0..FullScore
         /\ assessment.judge # Missing => /\ Min(Range(Valid)) <= assessment.judge
                                          /\ assessment.judge <= Max(Range(Valid))
         /\ Status # "completed" => assessment.score = Missing
         /\ Status = "completed" =>
              /\ assessment.score \in 0..FullScore /\ assessment.score # Missing
              /\ Min({assessment.judge, adversarial.robustness}) <= assessment.score
              /\ assessment.score <= Max({assessment.judge, adversarial.robustness})
<1> DEFINE Made(judge, total) ==
             [status |-> Status, reason |-> Reason, score |-> total,
              judge |-> judge, disputed |-> Disputed,
              spread |-> IF Answered = {} THEN Missing ELSE spread(Valid),
              judges |-> JudgeResults, nul |-> JudgesNul, adversarial |-> adversarial]
<1>0. PICK judge \in (IF Answered = {} THEN {Missing} ELSE median(Valid)) :
        \E total \in IF Status = "completed"
                       THEN calculate_ai_score(judge, adversarial.robustness) ELSE {Missing} :
          assessment = Made(judge, total)
  BY DEF Assessed
<1>1. PICK total \in (IF Status = "completed"
                        THEN calculate_ai_score(judge, adversarial.robustness) ELSE {Missing}) :
        assessment = Made(judge, total)
  BY <1>0
<1>2. /\ assessment.status = Status /\ assessment.disputed = Disputed
      /\ assessment.judges = Valid /\ assessment.adversarial = adversarial
      /\ assessment.judge = judge /\ assessment.score = total
      /\ assessment = [status |-> assessment.status, reason |-> assessment.reason,
                       score |-> assessment.score, judge |-> assessment.judge,
                       disputed |-> assessment.disputed, spread |-> assessment.spread,
                       judges |-> assessment.judges, nul |-> assessment.nul,
                       adversarial |-> assessment.adversarial]
      /\ assessment.reason = Reason /\ assessment.nul = JudgesNul
  BY <1>1 DEF JudgeResults
<1>3. FullScore \in Nat /\ Missing \notin 0..FullScore
  BY DEF FullScore, Missing
<1>4. CASE Answered = {}
  <2>1. judge = Missing
    BY <1>4
  <2>2. Status # "completed"
    <3>1. Judges # {}
      BY AIAssumption DEF Judges
    <3>2. Errors # {}
      BY <1>4, <3>1 DEF Answered, Errors
    <3> QED
      BY <3>2 DEF Status
  <2> QED
    BY <1>1, <1>2, <2>1, <2>2
<1>5. CASE Answered # {}
  <2>1. PICK n, s : n = Cardinality(Answered) /\ s = Valid
    OBVIOUS
  <2>2. n \in Nat \ {0} /\ DOMAIN s = 1..n /\ \A i \in 1..n : s[i] \in 0..FullScore
    <3>1. ScoresOf(n, s)
      BY <2>1, ValidIs
    <3> QED
      BY <1>5, <3>1 DEF ScoresOf
  <2>3. judge \in median(s)
    BY <1>5, <2>1
  <2>4. /\ judge \in 0..FullScore
        /\ Min(Range(s)) <= judge /\ judge <= Max(Range(s))
        /\ Max(Range(s)) \in Range(s) /\ Min(Range(s)) \in Range(s)
        /\ \A x \in Range(s) : Min(Range(s)) <= x /\ x <= Max(Range(s))
    BY <2>2, <2>3, MedianIsBetween
  <2>5. ASSUME Status = "completed"
        PROVE  /\ total \in 0..FullScore
               /\ Min({judge, adversarial.robustness}) <= total
               /\ total <= Max({judge, adversarial.robustness})
    <3>1. PICK r : r = adversarial.robustness
      OBVIOUS
    <3>2. r \in 0..FullScore
      BY <2>5, <3>1 DEF Status, AdversarialValid, TestsOK
    <3>3. total \in calculate_ai_score(judge, r)
      BY <2>5, <3>1
    <3>4. judge \in Nat /\ r \in Nat /\ judge <= FullScore /\ r <= FullScore
      BY <1>3, <2>4, <3>2
    <3>5. PICK lo, hi : lo = Min({judge, r}) /\ hi = Max({judge, r})
      OBVIOUS
    <3>6. lo \in Nat /\ hi \in Nat /\ lo <= judge /\ lo <= r /\ judge <= hi /\ r <= hi /\ hi <= FullScore
      BY <1>3, <3>4, <3>5, OfTwo
    <3>7. total \in Int /\ lo <= total /\ total <= hi
      BY <3>3, <3>4, <3>6, WeightedIsBetween
    <3>8. total \in 0..FullScore
      BY <1>3, <3>6, <3>7
    <3> QED
      BY <3>1, <3>5, <3>7, <3>8
  <2>6. Status # "completed" => total = Missing
    OBVIOUS
  <2> QED
    BY <1>2, <1>3, <2>1, <2>4, <2>5, <2>6
<1> QED
  BY <1>4, <1>5

\* The error of a judge is one of the short codes.
LEMMA ReasonIsShort ==
  ASSUME \A k \in Judges : Given(k), TestsOK, ~UnstorableText
  PROVE  Reason # "long_value_error"
<1>1. adversarial.reason # "long_value_error"
  BY DEF TestsOK, UnstorableText
<1>2. ASSUME Errors # {} PROVE outcome[Min(Errors)].code # "long_value_error"
  <2>1. Errors \in SUBSET (1..JudgeCount) /\ JudgeCount \in Nat
    BY AIAssumption DEF Errors, Judges
  <2>2. Errors \in SUBSET (0..JudgeCount)
    BY <2>1
  <2>3. Min(Errors) \in Errors
    BY <1>2, <2>1, <2>2, ExtremesAre
  <2>4. Min(Errors) \in Judges
    BY <2>3 DEF Errors
  <2> QED
    BY <2>4 DEF Given
<1> QED
  BY <1>1, <1>2 DEF Reason, None

\* The table refuses nothing but a text.
LEMMA StorableIs ==
  ASSUME \A k \in Judges : Given(k), Assessed, TestsOK, ~UnstorableText
  PROVE  StorableAI(evaluation_record_from_snapshot(assessment))
<1>1. /\ assessment.status = Status /\ assessment.adversarial = adversarial
      /\ assessment.reason = Reason /\ assessment.nul = JudgesNul
      /\ assessment.judge = Missing \/ assessment.judge \in 0..FullScore
      /\ assessment.score = Missing \/ assessment.score \in 0..FullScore
  BY AssessedIs
<1>2. Status \in AIStatus
  BY DEF Status, AIStatus
<1>3. adversarial.robustness = Missing \/ adversarial.robustness \in 0..FullScore
  BY DEF TestsOK
<1>4. Reason # "long_value_error"
  BY ReasonIsShort
<1>5. ~JudgesNul
  <2>1. ASSUME NEW k \in Answered, outcome[k].nul PROVE FALSE
    <3>1. k \in Calls /\ outcome[k].code = "ok" /\ WroteNul(k)
      BY <2>1 DEF Answered, Calls, WroteNul
    <3> QED
      BY <3>1 DEF UnstorableText
  <2> QED
    BY <2>1 DEF JudgesNul
<1>6. ~adversarial.nul
  <2>1. Generator \in Calls
    BY DEF Calls
  <2> QED
    BY <2>1 DEF TestsOK, UnstorableText
<1> QED
  BY <1>1, <1>2, <1>3, <1>4, <1>5, <1>6 DEF StorableAI, evaluation_record_from_snapshot

LEMMA GateIs ==
  ASSUME NEW gate \in {"disabled", "ai_identity_mismatch", "provider_unavailable", "input_too_large"}
  PROVE  /\ Gate(gate) = _assessment(Gate(gate).status, Gate(gate).reason)
         /\ Gate(gate).status \in AIStatus
         /\ StorableAI(evaluation_record_from_snapshot(Gate(gate)))
<1>1. \E status \in {"disabled", "skipped", "unavailable"}, reason \in {None, gate} :
         Gate(gate) = _assessment(status, reason)
  BY DEF Gate
<1>2. PICK status \in {"disabled", "skipped", "unavailable"}, reason \in {None, gate} :
         Gate(gate) = _assessment(status, reason)
  BY <1>1
<1>3. Gate(gate).status = status /\ Gate(gate).reason = reason
  BY <1>2 DEF _assessment
<1>4. status \in AIStatus
  BY DEF AIStatus
<1>5. StorableAI(evaluation_record_from_snapshot(_assessment(status, reason)))
  <2>1. reason # "long_value_error"
    BY DEF None
  <2> QED
    BY <1>4, <2>1 DEF StorableAI, evaluation_record_from_snapshot, _assessment, _empty_adversarial
<1> QED
  BY <1>2, <1>3, <1>4, <1>5

-----------------------------------------------------------------------------
(***************************************************************************)
(* Every step keeps the invariant.                                         *)
(***************************************************************************)

LEMMA AIInitInv == AIInit => AIInv
<1> SUFFICES ASSUME AIInit PROVE AIInv
  OBVIOUS
<1>1. MaxAttempts \in Nat \ {0} /\ JudgeCount \in Nat
  BY AIAssumption
<1>2. AITyped
  <2>1. attempt \in [Calls -> 1..MaxAttempts]
    BY <1>1 DEF AIInit
  <2>2. at \in [Calls -> {"idle", "slot", "request", "pause", "ended"}]
    BY DEF AIInit
  <2>3. outcome = [k \in Calls |-> outcome[k]]
    BY DEF AIInit
  <2>4. counts \in [generated : Nat, accepted : Nat, reference : Nat, passed : Nat]
    BY DEF AIInit, NoCounts
  <2>5. phase \in {"judges", "done"} /\ setup \in Setups
    BY DEF AIInit
  <2> QED
    BY <2>1, <2>2, <2>3, <2>4, <2>5 DEF AITyped
<1>3. ASSUME NEW k \in Calls PROVE CallOK(k)
  <2>1. outcome[k].code = None /\ outcome[k].score = Missing /\ outcome[k].nul = FALSE
    BY DEF AIInit, Pending
  <2>2. Given(k)
    BY <2>1 DEF Given, None
  <2>3. at[k] = IF setup.gate = "open" /\ k # Generator THEN "slot" ELSE "idle"
    BY DEF AIInit
  <2>4. at[k] = "slot" => phase = "judges" /\ k \in Judges
    BY <2>3 DEF AIInit, Calls
  <2> QED
    BY <2>2, <2>3, <2>4 DEF CallOK
<1>4. AIFlow
  BY DEF AIInit, AIFlow, Unassessed
<1> QED
  BY <1>2, <1>3, <1>4 DEF AIInv

\* Only the generator's error may be long.
MayFail(k) == Codes \ IF k = Generator THEN {} ELSE {"long_value_error"}

\* What a call ends with is an answer, or a ProviderError with its code.
LEMMA EndsAsGiven ==
  ASSUME NEW k \in Calls, NEW what,
         what \in Answers(k) \/ \E code \in MayFail(k) : what = Error(code)
  PROVE  /\ what.code \in Codes \cup {None, "ok"}
         /\ k \in Judges /\ what.code = "ok" => what.score \in JudgeScores
         /\ k \in Judges /\ what.code # "ok" => what.score = Missing
         /\ k = Generator /\ what.code = "ok" => what.draft \in Drafts
         /\ k \in Judges => what.code # "long_value_error"
         /\ what.nul \in BOOLEAN
<1>1. k \in Judges => k # Generator
  BY AIAssumption DEF Judges, Generator
<1>2. CASE what \in Answers(k)
  BY <1>1, <1>2, AIAssumption DEF Answers, JudgeScores
<1>3. CASE \E code \in MayFail(k) : what = Error(code)
  <2>1. PICK code \in MayFail(k) : what = Error(code)
    BY <1>3
  <2>2. what.code = code /\ what.score = Missing /\ what.nul = FALSE
    BY <2>1 DEF Error, Pending
  <2>3. code \in Codes /\ code # "ok" /\ (k # Generator => code # "long_value_error")
    BY DEF Codes, MayFail
  <2> QED
    BY <1>1, <2>2, <2>3
<1> QED
  BY <1>2, <1>3

LEMMA CallKeepsAIInv ==
  ASSUME AIInv, NEW k \in Calls, Call(k)
  PROVE  AIInv'
<1>1. /\ at[k] \in {"slot", "request", "pause"}
      /\ UNCHANGED <<setup, phase, tests, counts, adversarial, assessment, row, shown>>
  BY DEF Call, acquire, respond, refuse, fail, resume, caseVars, storeVars
<1>2. phase \in {"judges", "generate"}
  BY <1>1 DEF AIInv, CallOK
<1>3. AIFlow'
  BY <1>1, <1>2 DEF AIInv, AIFlow, Unassessed
<1>4. /\ at \in [Calls -> {"idle", "slot", "request", "pause", "ended"}]
      /\ attempt \in [Calls -> 1..MaxAttempts] /\ MaxAttempts \in Nat \ {0}
      /\ outcome = [j \in Calls |-> outcome[j]]
  BY AIAssumption DEF AIInv, AITyped
<1>5. \/ /\ \E to \in {"request", "pause", "slot"} : at' = [at EXCEPT ![k] = to]
         /\ at'[k] = "pause" => attempt[k] < MaxAttempts
         /\ outcome' = outcome
         /\ \/ attempt' = attempt
            \/ at[k] = "pause" /\ at'[k] = "slot" /\ attempt' = [attempt EXCEPT ![k] = @ + 1]
      \/ /\ at' = [at EXCEPT ![k] = "ended"] /\ attempt' = attempt
         /\ \E what : /\ outcome' = [outcome EXCEPT ![k] = what]
                      /\ what \in Answers(k) \/ \E code \in MayFail(k) : what = Error(code)
  <2>1. CASE acquire(k)
    BY <1>4, <2>1 DEF acquire
  <2>2. CASE respond(k)
    <3>1. Undecodable(k) \subseteq MayFail(k)
      BY DEF Codes, MayFail, Undecodable
    <3> QED
      BY <2>2, <3>1 DEF respond, EndCall
  <2>3. CASE refuse(k)
    <3>1. "rejected" \in MayFail(k) /\ Unexpected(k) \in MayFail(k)
      BY DEF Codes, MayFail, Unexpected
    <3> QED
      BY <2>3, <3>1 DEF refuse, EndCall
  <2>4. CASE fail(k)
    <3>1. "transient" \in MayFail(k)
      BY DEF Codes, MayFail
    <3>2. attempt[k] \in Nat
      BY <1>4
    <3>3. CASE attempt[k] >= MaxAttempts
      BY <2>4, <3>1, <3>3 DEF fail, EndCall
    <3>4. CASE ~(attempt[k] >= MaxAttempts)
      BY <1>4, <2>4, <3>2, <3>4 DEF fail
    <3> QED
      BY <3>3, <3>4
  <2>5. CASE resume(k)
    BY <1>4, <2>5 DEF resume
  <2> QED
    BY <2>1, <2>2, <2>3, <2>4, <2>5 DEF Call
<1>6. /\ at' \in [Calls -> {"idle", "slot", "request", "pause", "ended"}]
      /\ \A j \in Calls \ {k} : at'[j] = at[j]
  BY <1>4, <1>5
<1>7. at[k] = "pause" => attempt[k] < MaxAttempts
  BY DEF AIInv, CallOK
<1>8. /\ attempt' \in [Calls -> 1..MaxAttempts]
      /\ \A j \in Calls \ {k} : attempt'[j] = attempt[j]
  <2>1. CASE attempt' = attempt
    BY <1>4, <2>1
  <2>2. CASE at[k] = "pause" /\ attempt' = [attempt EXCEPT ![k] = @ + 1]
    <3>1. attempt[k] + 1 \in 1..MaxAttempts
      BY <1>4, <1>7, <2>2
    <3> QED
      BY <1>4, <2>2, <3>1
  <2> QED
    BY <1>5, <2>1, <2>2
<1>9. at'[k] = "pause" => attempt'[k] < MaxAttempts
  <2>1. CASE attempt' = attempt
    BY <1>4, <1>5, <2>1
  <2>2. CASE at'[k] = "slot"
    BY <2>2
  <2> QED
    BY <1>5, <2>1, <2>2
<1>10. /\ outcome' = [j \in Calls |-> outcome'[j]]
       /\ \A j \in Calls \ {k} : outcome'[j] = outcome[j]
  BY <1>4, <1>5
<1>11. Given(k)'
  <2>1. CASE outcome' = outcome
    BY <2>1 DEF AIInv, CallOK, Given
  <2>2. CASE outcome' # outcome
    <3>1. PICK what : /\ outcome' = [outcome EXCEPT ![k] = what]
                      /\ what \in Answers(k) \/ \E code \in MayFail(k) : what = Error(code)
      BY <1>5, <2>2
    <3>2. outcome'[k] = what
      BY <1>4, <3>1
    <3>3. /\ what.code \in Codes \cup {None, "ok"}
          /\ k \in Judges /\ what.code = "ok" => what.score \in JudgeScores
          /\ k \in Judges /\ what.code # "ok" => what.score = Missing
          /\ k = Generator /\ what.code = "ok" => what.draft \in Drafts
          /\ k \in Judges => what.code # "long_value_error"
          /\ what.nul \in BOOLEAN
      BY <3>1, EndsAsGiven
    <3> QED
      BY <3>2, <3>3 DEF Given
  <2> QED
    BY <2>1, <2>2
<1>12. ASSUME NEW j \in Calls PROVE CallOK(j)'
  <2>1. CASE j = k
    <3>1. (k \in Judges /\ phase = "judges") \/ (k = Generator /\ phase = "generate")
      BY <1>1 DEF AIInv, CallOK
    <3> QED
      BY <1>1, <1>9, <1>11, <2>1, <3>1 DEF CallOK
  <2>2. CASE j # k
    <3>1. at'[j] = at[j] /\ attempt'[j] = attempt[j] /\ outcome'[j] = outcome[j]
      BY <1>6, <1>8, <1>10, <2>2
    <3>2. CallOK(j)
      BY DEF AIInv
    <3> QED
      BY <1>1, <3>1, <3>2 DEF CallOK, Given
  <2> QED
    BY <2>1, <2>2
<1>13. AITyped'
  BY <1>1, <1>6, <1>8, <1>10 DEF AIInv, AITyped
<1> QED
  BY <1>3, <1>12, <1>13 DEF AIInv

\* An assessment is made of what the calls and the tests have left.
LEMMA EvidenceStays ==
  ASSUME outcome' = outcome, adversarial' = adversarial
  PROVE  /\ Answered' = Answered /\ Valid' = Valid /\ JudgeResults' = JudgeResults
         /\ Disputed' = Disputed /\ Status' = Status /\ Reason' = Reason
         /\ JudgesNul' = JudgesNul
<1>1. Answered' = Answered /\ Errors' = Errors /\ JudgesNul' = JudgesNul
  BY DEF Answered, Errors, JudgesNul
<1>2. Valid' = Valid
  BY <1>1 DEF Valid
<1>3. Disputed' = Disputed
  BY <1>1, <1>2 DEF Disputed
<1>4. AdversarialValid' = AdversarialValid
  BY DEF AdversarialValid
<1>5. Status' = Status
  BY <1>1, <1>3, <1>4 DEF Status
<1>6. Reason' = Reason
  BY <1>1, <1>5 DEF Reason
<1> QED
  BY <1>1, <1>2, <1>3, <1>5, <1>6 DEF JudgeResults

LEMMA AssessedStays ==
  ASSUME outcome' = outcome, adversarial' = adversarial, assessment' = assessment, Assessed
  PROVE  Assessed'
<1>1. /\ Answered' = Answered /\ Valid' = Valid /\ JudgeResults' = JudgeResults
      /\ Disputed' = Disputed /\ Status' = Status /\ Reason' = Reason
      /\ JudgesNul' = JudgesNul
  BY EvidenceStays
<1> QED
  BY <1>1 DEF Assessed

LEMMA TestsStay ==
  ASSUME outcome' = outcome, adversarial' = adversarial, TestsOK
  PROVE  TestsOK'
BY DEF TestsOK, CountsAgree, WroteNul

\* Past its phase no call is under way.
LEMMA CallsAtRest ==
  ASSUME AIInv, UNCHANGED <<setup, at, attempt, outcome>>,
         \/ phase = "judges" /\ \A k \in Judges : at[k] = "ended"
         \/ phase = "generate" /\ at[Generator] = "ended"
         \/ phase \in {"cases", "conclude", "done", "stored", "refused", "read"}
  PROVE  \A k \in Calls : CallOK(k)'
<1> SUFFICES ASSUME NEW k \in Calls PROVE CallOK(k)'
  OBVIOUS
<1>1. Given(k)'
  BY DEF AIInv, CallOK, Given
<1>2. at[k] \notin {"slot", "request", "pause"}
  <2>1. CallOK(k)
    BY DEF AIInv
  <2>2. k \in Judges => k # Generator
    BY AIAssumption DEF Judges, Generator
  <2> QED
    BY <2>1, <2>2 DEF CallOK
<1> QED
  BY <1>1, <1>2 DEF CallOK

LEMMA GatherKeepsAIInv ==
  ASSUME AIInv, gather
  PROVE  AIInv'
<1>1. /\ phase = "judges" /\ \A k \in Judges : at[k] = "ended"
      /\ UNCHANGED <<setup, attempt, outcome, tests, counts, assessment, row, shown>>
  BY DEF gather, storeVars
<1>2. setup.gate = "open" /\ Unassessed /\ adversarial = _empty_adversarial(None, None)
  BY <1>1 DEF AIInv, AIFlow
<1>3. CASE setup.extra = "present"
  <2>1. phase' = "generate" /\ at' = [at EXCEPT ![Generator] = "slot"] /\ adversarial' = adversarial
    BY <1>3 DEF gather
  <2>2. at \in [Calls -> {"idle", "slot", "request", "pause", "ended"}]
    BY DEF AIInv, AITyped
  <2>3. AITyped'
    BY <1>1, <2>1, <2>2 DEF AIInv, AITyped
  <2>4. ASSUME NEW k \in Calls PROVE CallOK(k)'
    <3>1. CallOK(k)
      BY DEF AIInv
    <3>2. Given(k)'
      BY <1>1, <3>1 DEF CallOK, Given
    <3>3. CASE k = Generator
      BY <2>1, <2>2, <3>2, <3>3 DEF CallOK
    <3>4. CASE k # Generator
      <4>1. at'[k] = at[k] /\ k \in Judges
        BY <2>1, <2>2, <3>4 DEF Calls
      <4> QED
        BY <1>1, <3>2, <4>1 DEF CallOK
    <3> QED
      BY <3>3, <3>4
  <2>5. AIFlow'
    BY <1>1, <1>2, <2>1 DEF AIFlow, Unassessed
  <2> QED
    BY <2>3, <2>4, <2>5 DEF AIInv
<1>4. CASE setup.extra # "present"
  <2>1. phase' = "conclude" /\ at' = at /\ adversarial' = _empty_adversarial("skipped", setup.extra)
    BY <1>4 DEF gather
  <2>2. AITyped'
    BY <1>1, <2>1 DEF AIInv, AITyped
  <2>3. \A k \in Calls : CallOK(k)'
    BY <1>1, <2>1, CallsAtRest
  <2>4. setup.extra # "adversarial_sandbox_unavailable"
    BY DEF AIInv, AITyped, Setups
  <2>5. TestsOK'
    <3>1. MaxAdversarialTests \in Nat
      BY AIAssumption
    <3>2. setup.extra # "long_value_error"
      BY DEF AIInv, AITyped, Setups
    <3> QED
      BY <2>1, <2>4, <3>1, <3>2 DEF TestsOK, CountsAgree, _empty_adversarial
  <2>6. AIFlow'
    BY <1>1, <1>2, <2>1, <2>5 DEF AIFlow, Unassessed
  <2> QED
    BY <2>2, <2>3, <2>6 DEF AIInv
<1> QED
  BY <1>3, <1>4

LEMMA ValidateKeepsAIInv ==
  ASSUME AIInv, validate
  PROVE  AIInv'
<1>1. /\ phase = "generate" /\ at[Generator] = "ended"
      /\ UNCHANGED <<setup, at, attempt, outcome, assessment, row, shown>>
  BY DEF validate, callVars, storeVars
<1>2. setup.gate = "open" /\ Unassessed /\ adversarial = _empty_adversarial(None, None)
  BY <1>1 DEF AIInv, AIFlow
<1>3. \A k \in Calls : CallOK(k)'
  BY <1>1, CallsAtRest
<1>4. PICK draft : draft = outcome[Generator].draft
  OBVIOUS
<1>5. PICK code : code = outcome[Generator].code
  OBVIOUS
<1>6. MaxAdversarialTests \in Nat
  BY AIAssumption
<1>7. CASE phase' = "conclude"
  <2>1. /\ phase' = "conclude" /\ tests' = tests /\ counts' = counts
        /\ \E why \in {code, "too_many_generated_tests", "generated_tests_too_large"} :
             adversarial' = _empty_adversarial("unavailable", why)
    <3>1. Refusals(code, draft) \subseteq {code, "too_many_generated_tests", "generated_tests_too_large"}
      BY DEF Refusals
    <3> QED
      BY <1>4, <1>5, <1>7, <3>1 DEF validate
  <2>2. code # "adversarial_sandbox_unavailable"
    <3>1. Generator \in Calls
      BY DEF Calls
    <3> QED
      BY <1>5, <3>1 DEF AIInv, CallOK, Given, Codes, None
  <2>3. AITyped'
    BY <1>1, <2>1 DEF AIInv, AITyped
  <2>4. TestsOK'
    <3>1. PICK why \in {code, "too_many_generated_tests", "generated_tests_too_large"} :
             adversarial' = _empty_adversarial("unavailable", why)
      BY <2>1
    <3>2. why # "adversarial_sandbox_unavailable"
      BY <2>2
    <3>3. why = "long_value_error" => outcome'[Generator].code = "long_value_error"
      BY <1>1, <1>5, <3>1
    <3> QED
      BY <1>6, <3>1, <3>2, <3>3 DEF TestsOK, CountsAgree, _empty_adversarial
  <2>5. AIFlow'
    BY <1>1, <1>2, <2>1, <2>4 DEF AIFlow, Unassessed
  <2> QED
    BY <1>3, <2>3, <2>5 DEF AIInv
<1>8. CASE code = "ok" /\ Len(draft) <= MaxAdversarialTests /\ phase' # "conclude"
  <2>1. PICK n, tidy : n = Len(draft) /\ tidy = deduplicate_and_validate(draft)
    OBVIOUS
  <2>2. /\ phase' = "cases" /\ tests' = Listed(tidy) /\ adversarial' = adversarial
        /\ counts' = [NoCounts EXCEPT !.generated = n]
    BY <1>4, <1>5, <1>8, <2>1 DEF validate
  <2>3. draft \in Drafts
    <3>1. Generator \in Calls
      BY DEF Calls
    <3> QED
      BY <1>4, <1>5, <1>8, <3>1 DEF AIInv, CallOK, Given
  <2>4. n \in Nat /\ DOMAIN draft = 1..n /\ n <= MaxAdversarialTests
    <3>1. Len(draft) \in Nat /\ DOMAIN draft = 1..Len(draft)
      BY <2>3, AIAssumption
    <3> QED
      BY <1>6, <1>8, <2>1, <3>1
  <2>5. /\ tidy \in SUBSET (1..n) /\ IsFiniteSet(tidy)
        /\ Cardinality(tidy) \in Nat /\ Cardinality(tidy) <= n
        /\ \A i, k \in tidy : i # k => ~Same(draft[i], draft[k])
    BY <2>1, <2>4, KeptAreDistinct
  <2>6. PICK q : q = Listed(tidy)
    OBVIOUS
  <2>7. tidy \in SUBSET Nat
    BY <2>4, <2>5
  <2>8. /\ Cardinality(tidy) \in Nat /\ q \in Seq(tidy) /\ Len(q) = Cardinality(tidy)
        /\ \A i \in 1..Cardinality(tidy) : q[i] \in tidy
        /\ \A x \in tidy : \E i \in 1..Cardinality(tidy) : q[i] = x
        /\ \A i, k \in 1..Cardinality(tidy) : i < k => q[i] < q[k]
    BY <2>5, <2>6, <2>7, NumbersInOrder
  <2>9. /\ counts' \in [generated : Nat, accepted : Nat, reference : Nat, passed : Nat]
        /\ counts'.generated = n /\ counts'.accepted = 0 /\ counts'.reference = 0 /\ counts'.passed = 0
    BY <2>2, <2>4 DEF NoCounts
  <2>10. AITyped'
    BY <1>1, <2>2, <2>9 DEF AIInv, AITyped
  <2>11. CasesOK'
    <3>1. outcome'[Generator].code = "ok" /\ outcome'[Generator].draft = draft
      BY <1>1, <1>4, <1>5, <1>8
    <3>2. tests' \in Seq(tidy) /\ Len(tests') <= n /\ Len(tests') \in Nat
      BY <2>2, <2>5, <2>6, <2>8
    <3>3. 0 + Len(tests') <= n
      BY <2>4, <3>2
    <3>4. counts'.accepted + Len(tests') <= counts'.generated
      BY <2>9, <3>3
    <3> QED
      BY <2>1, <2>4, <2>9, <3>1, <3>2, <3>4 DEF CasesOK
  <2>12. AIFlow'
    BY <1>1, <1>2, <2>2, <2>11 DEF AIFlow, Unassessed
  <2> QED
    BY <1>3, <2>10, <2>12 DEF AIInv
<1> QED
  BY <1>4, <1>5, <1>7, <1>8 DEF validate

\* One test fewer, one more accepted; the rest of a step of the tests.
LEMMA OneTest ==
  ASSUME AIInv, phase = "cases", tests # <<>>,
         NEW S, S = deduplicate_and_validate(outcome[Generator].draft)
  PROVE  /\ tests \in Seq(S) /\ Tail(tests) \in Seq(S) /\ Len(Tail(tests)) = Len(tests) - 1
         /\ Len(tests) \in Nat \ {0}
         /\ counts.accepted + Len(tests) <= counts.generated
<1>1. CasesOK
  BY DEF AIInv, AIFlow
<1>2. tests \in Seq(S) /\ counts.accepted + Len(tests) <= counts.generated
  BY <1>1 DEF CasesOK
<1>3. Tail(tests) \in Seq(S) /\ Len(Tail(tests)) = Len(tests) - 1 /\ Len(tests) \in Nat \ {0}
  BY <1>2
<1> QED
  BY <1>2, <1>3

LEMMA CaseKeepsAIInv ==
  ASSUME AIInv, run_reference_rejects \/ run_candidate
  PROVE  AIInv'
<1>1. /\ phase = "cases" /\ tests # <<>> /\ tests' = Tail(tests)
      /\ UNCHANGED <<setup, phase, at, attempt, outcome, adversarial, assessment, row, shown>>
  BY DEF run_reference_rejects, run_candidate, callVars, storeVars
<1>2. setup.gate = "open" /\ Unassessed /\ adversarial = _empty_adversarial(None, None)
  BY <1>1 DEF AIInv, AIFlow
<1>3. \A k \in Calls : CallOK(k)'
  BY <1>1, CallsAtRest
<1>4. PICK c : c = counts
  OBVIOUS
<1>5. /\ c \in [generated : Nat, accepted : Nat, reference : Nat, passed : Nat]
      /\ c.passed <= c.reference /\ c.reference <= c.accepted /\ c.generated <= MaxAdversarialTests
      /\ outcome[Generator].code = "ok" /\ c.generated = Len(outcome[Generator].draft)
  BY <1>1, <1>4 DEF AIInv, AITyped, AIFlow, CasesOK
<1>6. \E r \in {0, 1}, p \in {0, 1} :
         p <= r /\ counts' = [c EXCEPT !.accepted = @ + 1, !.reference = @ + r, !.passed = @ + p]
  <2>1. \A x \in Nat : x + 0 = x
    OBVIOUS
  <2>2. CASE run_reference_rejects
    <3>1. counts' = [c EXCEPT !.accepted = @ + 1]
      BY <1>4, <2>2 DEF run_reference_rejects
    <3>2. counts' = [c EXCEPT !.accepted = @ + 1, !.reference = @ + 0, !.passed = @ + 0]
      BY <1>5, <2>1, <3>1
    <3> QED
      BY <3>2
  <2>3. CASE run_candidate
    <3>1. counts' = Passed(c) \/ counts' = Failed(c)
      BY <1>4, <2>3 DEF run_candidate
    <3>2. CASE counts' = Passed(c)
      <4>1. counts' = [c EXCEPT !.accepted = @ + 1, !.reference = @ + 1, !.passed = @ + 1]
        BY <3>2 DEF Passed
      <4> QED
        BY <4>1
    <3>3. CASE counts' = Failed(c)
      <4>1. counts' = [c EXCEPT !.accepted = @ + 1, !.reference = @ + 1]
        BY <3>3 DEF Failed
      <4>2. counts' = [c EXCEPT !.accepted = @ + 1, !.reference = @ + 1, !.passed = @ + 0]
        BY <1>5, <2>1, <4>1
      <4> QED
        BY <4>2
    <3> QED
      BY <3>1, <3>2, <3>3
  <2> QED
    BY <2>2, <2>3
<1>7. PICK r \in {0, 1}, p \in {0, 1} :
         p <= r /\ counts' = [c EXCEPT !.accepted = @ + 1, !.reference = @ + r, !.passed = @ + p]
  BY <1>6
<1>8. /\ counts' \in [generated : Nat, accepted : Nat, reference : Nat, passed : Nat]
      /\ counts'.generated = c.generated /\ counts'.accepted = c.accepted + 1
      /\ counts'.reference = c.reference + r /\ counts'.passed = c.passed + p
  <2>1. /\ counts'.generated = c.generated /\ counts'.accepted = c.accepted + 1
        /\ counts'.reference = c.reference + r /\ counts'.passed = c.passed + p
    BY <1>5, <1>7
  <2>2. /\ c.generated \in Nat /\ c.accepted + 1 \in Nat
        /\ c.reference + r \in Nat /\ c.passed + p \in Nat
    <3>1. r \in Nat /\ p \in Nat
      OBVIOUS
    <3> QED
      BY <1>5, <3>1
  <2>3. counts' = [generated |-> c.generated, accepted |-> c.accepted + 1,
                   reference |-> c.reference + r, passed |-> c.passed + p]
    BY <1>5, <1>7
  <2> QED
    BY <2>1, <2>2, <2>3
<1>9. CasesOK'
  <2>1. PICK S : S = deduplicate_and_validate(outcome[Generator].draft)
    OBVIOUS
  <2>2. /\ tests \in Seq(S) /\ Tail(tests) \in Seq(S) /\ Len(Tail(tests)) = Len(tests) - 1
        /\ Len(tests) \in Nat \ {0}
        /\ counts.accepted + Len(tests) <= counts.generated
    BY <1>1, <2>1, OneTest
  <2>3. S = deduplicate_and_validate(outcome'[Generator].draft)
    BY <1>1, <2>1
  <2>4. counts'.accepted + Len(tests') <= counts'.generated
    BY <1>1, <1>4, <1>5, <1>8, <2>2
  <2>5. counts'.passed <= counts'.reference /\ counts'.reference <= counts'.accepted
    BY <1>5, <1>7, <1>8
  <2> QED
    BY <1>1, <1>5, <1>8, <2>2, <2>3, <2>4, <2>5 DEF CasesOK
<1>10. AITyped'
  BY <1>1, <1>8 DEF AIInv, AITyped
<1>11. AIFlow'
  BY <1>1, <1>2, <1>9 DEF AIFlow, Unassessed
<1> QED
  BY <1>3, <1>10, <1>11 DEF AIInv

\* A stored document with U+0000 has it from the generator.
LEMMA NulIsWritten ==
  ASSUME AIInv, phase = "cases", NEW status, NEW reason, NEW c, NEW f, NEW r,
         NEW n \in Int, n <= Len(outcome[Generator].draft),
         NEW a, a = CountedTests(status, reason, c, f, r, n)
  PROVE  /\ a.nul \in BOOLEAN
         /\ a.nul => outcome[Generator].code = "ok" /\ WroteNul(Generator)
<1>1. Generator \in Calls
  BY DEF Calls
<1>2. outcome[Generator].code = "ok" /\ outcome[Generator].nul \in BOOLEAN
      /\ outcome[Generator].draft \in Drafts
  BY <1>1 DEF AIInv, AIFlow, CasesOK, CallOK, Given
<1>3. PICK d : d = outcome[Generator].draft
  OBVIOUS
<1>4. Len(d) \in Nat /\ DOMAIN d = 1..Len(d)
  BY <1>2, <1>3, AIAssumption
<1>5. (\E i \in 1..n : d[i].nul) => \E i \in DOMAIN d : d[i].nul
  <2>1. 1..n \subseteq DOMAIN d
    BY <1>3, <1>4
  <2> QED
    BY <2>1
<1>6. a.nul = (outcome[Generator].nul \/ \E i \in 1..n : d[i].nul)
  BY <1>3 DEF CountedTests
<1> QED
  BY <1>2, <1>3, <1>5, <1>6 DEF WroteNul

LEMMA UnavailableKeepsAIInv ==
  ASSUME AIInv, run_candidate_unavailable
  PROVE  AIInv'
<1>1. /\ phase = "cases" /\ tests # <<>> /\ phase' = "conclude"
      /\ UNCHANGED <<setup, at, attempt, outcome, tests, counts, assessment, row, shown>>
  BY DEF run_candidate_unavailable, callVars, storeVars
<1>2. setup.gate = "open" /\ Unassessed
  BY <1>1 DEF AIInv, AIFlow
<1>3. \A k \in Calls : CallOK(k)'
  BY <1>1, CallsAtRest
<1>4. AITyped'
  BY <1>1 DEF AIInv, AITyped
<1>5. PICK c : c = Failed(counts)
  OBVIOUS
<1>6. /\ counts \in [generated : Nat, accepted : Nat, reference : Nat, passed : Nat]
      /\ counts.passed <= counts.reference /\ counts.reference <= counts.accepted
      /\ counts.generated <= MaxAdversarialTests
  BY <1>1 DEF AIInv, AITyped, AIFlow, CasesOK
<1>7. /\ c.generated = counts.generated /\ c.accepted = counts.accepted + 1
      /\ c.reference = counts.reference + 1 /\ c.passed = counts.passed
  BY <1>5, <1>6 DEF Failed
<1>8. counts.accepted + 1 <= counts.generated
  <2>1. PICK S : S = deduplicate_and_validate(outcome[Generator].draft)
    OBVIOUS
  <2>2. /\ tests \in Seq(S) /\ Tail(tests) \in Seq(S) /\ Len(Tail(tests)) = Len(tests) - 1
        /\ Len(tests) \in Nat \ {0}
        /\ counts.accepted + Len(tests) <= counts.generated
    BY <1>1, <2>1, OneTest
  <2> QED
    BY <1>6, <2>2
<1>9. PICK f : f = Max({0, c.reference - c.passed - 1})
  OBVIOUS
<1>10. f = c.reference - c.passed - 1
  <2>1. PICK d : d = c.reference - c.passed - 1
    OBVIOUS
  <2>2. d \in Int /\ d >= 0
    BY <1>6, <1>7, <2>1
  <2>3. Max({0, d}) = IF 0 >= d THEN 0 ELSE d
    BY <2>2, OfTwo
  <2> QED
    BY <1>9, <2>1, <2>2, <2>3
<1>11. PICK n : n = Head(tests) - 1
  OBVIOUS
<1>15. adversarial' = CountedTests("unavailable", "adversarial_sandbox_unavailable", c, f, Missing, n)
  BY <1>5, <1>9, <1>11 DEF run_candidate_unavailable
<1>16. n \in Int /\ n <= Len(outcome[Generator].draft)
  <2>1. PICK d, len, S : /\ d = outcome[Generator].draft /\ len = Len(d)
                         /\ S = deduplicate_and_validate(d)
    OBVIOUS
  <2>2. /\ tests \in Seq(S) /\ Tail(tests) \in Seq(S) /\ Len(Tail(tests)) = Len(tests) - 1
        /\ Len(tests) \in Nat \ {0}
        /\ counts.accepted + Len(tests) <= counts.generated
    BY <1>1, <2>1, OneTest
  <2>3. d \in Drafts
    <3>1. Generator \in Calls
      BY DEF Calls
    <3> QED
      BY <1>1, <2>1, <3>1 DEF AIInv, AIFlow, CasesOK, CallOK, Given
  <2>4. len \in Nat /\ DOMAIN d = 1..len
    BY <2>1, <2>3, AIAssumption
  <2>5. S \in SUBSET (1..len)
    BY <2>1, <2>4, KeptAreDistinct
  <2>6. Head(tests) \in S
    BY <2>2
  <2> QED
    BY <1>11, <2>1, <2>4, <2>5, <2>6
<1>17. /\ adversarial'.nul \in BOOLEAN
       /\ adversarial'.nul => outcome[Generator].code = "ok" /\ WroteNul(Generator)
  BY <1>1, <1>15, <1>16, NulIsWritten
<1>12. /\ adversarial'.status = "unavailable" /\ adversarial'.reason = "adversarial_sandbox_unavailable"
       /\ adversarial'.generated = c.generated /\ adversarial'.accepted = c.accepted
       /\ adversarial'.reference = c.reference /\ adversarial'.passed = c.passed
       /\ adversarial'.failed = f /\ adversarial'.robustness = Missing
  BY <1>15 DEF CountedTests
<1>13. TestsOK'
  <2>1. c.reference \in Nat /\ c.reference <= c.accepted /\ c.accepted <= c.generated
    BY <1>6, <1>7, <1>8
  <2>2. c.generated <= MaxAdversarialTests /\ c.passed + f = c.reference - 1
    BY <1>6, <1>7, <1>10
  <2> QED
    BY <1>1, <1>12, <1>17, <2>1, <2>2 DEF TestsOK, CountsAgree, WroteNul
<1>14. AIFlow'
  BY <1>1, <1>2, <1>13 DEF AIFlow, Unassessed
<1> QED
  BY <1>3, <1>4, <1>14 DEF AIInv

LEMMA RaiseKeepsAIInv ==
  ASSUME AIInv, run_raises
  PROVE  AIInv'
<1>1. /\ phase = "cases" /\ phase' = "conclude"
      /\ UNCHANGED <<setup, at, attempt, outcome, tests, counts, assessment, row, shown>>
  BY DEF run_raises, callVars, storeVars
<1>2. setup.gate = "open" /\ Unassessed
  BY <1>1 DEF AIInv, AIFlow
<1>3. \A k \in Calls : CallOK(k)'
  BY <1>1, CallsAtRest
<1>4. AITyped'
  BY <1>1 DEF AIInv, AITyped
<1>5. TestsOK'
  <2>1. MaxAdversarialTests \in Nat
    BY AIAssumption
  <2>2. PICK status \in {"skipped", "unavailable"},
             reason \in {"reference_unavailable", "adversarial_unavailable"} :
          adversarial' = _empty_adversarial(status, reason)
    BY DEF run_raises
  <2>3. /\ adversarial'.status = status /\ adversarial'.reason = reason
        /\ adversarial'.generated = 0 /\ adversarial'.accepted = 0 /\ adversarial'.reference = 0
        /\ adversarial'.passed = 0 /\ adversarial'.failed = 0 /\ adversarial'.robustness = Missing
        /\ adversarial'.nul = FALSE
    BY <2>2 DEF _empty_adversarial
  <2>4. /\ adversarial'.status \in {"skipped", "unavailable"}
        /\ adversarial'.reason # "long_value_error"
        /\ adversarial'.reason # "adversarial_sandbox_unavailable"
    BY <2>2, <2>3
  <2>5. CountsAgree'
    BY <2>1, <2>3, <2>4 DEF CountsAgree
  <2>6. /\ adversarial'.nul \in BOOLEAN
        /\ adversarial'.nul => outcome'[Generator].code = "ok" /\ WroteNul(Generator)'
    BY <2>3, Zenon
  <2> QED
    BY <2>3, <2>4, <2>5, <2>6 DEF TestsOK
<1>6. AIFlow'
  BY <1>1, <1>2, <1>5 DEF AIFlow, Unassessed
<1> QED
  BY <1>3, <1>4, <1>6 DEF AIInv

LEMMA FinishKeepsAIInv ==
  ASSUME AIInv, finish_cases
  PROVE  AIInv'
<1>1. /\ phase = "cases" /\ tests = <<>> /\ phase' = "conclude"
      /\ UNCHANGED <<setup, at, attempt, outcome, tests, counts, assessment, row, shown>>
  BY DEF finish_cases, callVars, storeVars
<1>2. setup.gate = "open" /\ Unassessed
  BY <1>1 DEF AIInv, AIFlow
<1>3. \A k \in Calls : CallOK(k)'
  BY <1>1, CallsAtRest
<1>4. AITyped'
  BY <1>1 DEF AIInv, AITyped
<1>5. PICK c : c = counts
  OBVIOUS
<1>6. /\ c \in [generated : Nat, accepted : Nat, reference : Nat, passed : Nat]
      /\ c.passed <= c.reference /\ c.reference <= c.accepted
      /\ c.accepted + Len(tests) <= c.generated /\ c.generated <= MaxAdversarialTests
      /\ c.generated = Len(outcome[Generator].draft)
  BY <1>1, <1>5 DEF AIInv, AITyped, AIFlow, CasesOK
<1>7. c.accepted <= c.generated
  <2>1. Len(tests) = 0
    BY <1>1
  <2> QED
    BY <1>6, <2>1
<1>8. TestsOK'
  <2>1. CASE c.reference = 0
    <3>1. adversarial' = CountedTests("unavailable", "no_valid_adversarial_tests", c, 0, Missing,
                                     c.generated)
      BY <1>5, <2>1 DEF finish_cases
    <3>2. c.passed + 0 = c.reference
      BY <1>6, <2>1
    <3>3. /\ adversarial'.nul \in BOOLEAN
          /\ adversarial'.nul => outcome[Generator].code = "ok" /\ WroteNul(Generator)
      BY <1>1, <1>6, <3>1, NulIsWritten
    <3>4. /\ adversarial'.status = "unavailable" /\ adversarial'.reason = "no_valid_adversarial_tests"
          /\ adversarial'.generated = c.generated /\ adversarial'.accepted = c.accepted
          /\ adversarial'.reference = c.reference /\ adversarial'.passed = c.passed
          /\ adversarial'.failed = 0 /\ adversarial'.robustness = Missing
      BY <3>1 DEF CountedTests
    <3> QED
      BY <1>1, <1>6, <1>7, <2>1, <3>2, <3>3, <3>4 DEF TestsOK, CountsAgree, WroteNul
  <2>2. CASE c.reference # 0
    <3>1. PICK robustness \in Round2(c.passed * FullScore, c.reference) :
            adversarial' = CountedTests("completed", None, c, c.reference - c.passed, robustness,
                                        c.generated)
      BY <1>5, <2>2 DEF finish_cases
    <3>2. PICK f : f = c.reference - c.passed
      OBVIOUS
    <3>3. robustness \in 0..FullScore
      <4>1. c.passed \in Nat /\ c.reference \in Nat \ {0} /\ c.passed <= c.reference
        BY <1>6, <2>2
      <4> QED
        BY <3>1, <4>1, ShareIsScore
    <3>4. /\ adversarial'.status = "completed" /\ adversarial'.reason = None
          /\ adversarial'.generated = c.generated /\ adversarial'.accepted = c.accepted
          /\ adversarial'.reference = c.reference /\ adversarial'.passed = c.passed
          /\ adversarial'.failed = f /\ adversarial'.robustness = robustness
      BY <3>1, <3>2 DEF CountedTests
    <3>5. c.passed + f = c.reference /\ c.reference > 0 /\ c.reference \in Nat
      BY <1>6, <2>2, <3>2
    <3>6. None # "adversarial_sandbox_unavailable" /\ None # "long_value_error"
      BY DEF None
    <3>7. /\ adversarial'.nul \in BOOLEAN
          /\ adversarial'.nul => outcome[Generator].code = "ok" /\ WroteNul(Generator)
      <4>1. PICK n : n = c.generated
        OBVIOUS
      <4>2. n \in Int /\ n <= Len(outcome[Generator].draft)
        BY <1>6, <4>1
      <4>3. adversarial' = CountedTests("completed", None, c, f, robustness, n)
        BY <3>1, <3>2, <4>1
      <4>4. PICK noted : noted = adversarial'
        OBVIOUS
      <4>5. /\ noted.nul \in BOOLEAN
            /\ noted.nul => outcome[Generator].code = "ok" /\ WroteNul(Generator)
        BY <1>1, <4>2, <4>3, <4>4, NulIsWritten
      <4> QED
        BY <4>4, <4>5
    <3> QED
      BY <1>1, <1>6, <1>7, <3>3, <3>4, <3>5, <3>6, <3>7 DEF TestsOK, CountsAgree, WroteNul
  <2> QED
    BY <2>1, <2>2
<1>9. AIFlow'
  BY <1>1, <1>2, <1>8 DEF AIFlow, Unassessed
<1> QED
  BY <1>3, <1>4, <1>9 DEF AIInv

LEMMA AssessKeepsAIInv ==
  ASSUME AIInv, assess
  PROVE  AIInv'
<1>1. /\ phase = "conclude" /\ phase' = "done"
      /\ UNCHANGED <<setup, at, attempt, outcome, tests, counts, adversarial, row, shown>>
  BY DEF assess, callVars, caseVars, storeVars
<1>2. setup.gate = "open" /\ TestsOK
  BY <1>1 DEF AIInv, AIFlow
<1>3. \A k \in Calls : CallOK(k)'
  BY <1>1, CallsAtRest
<1>4. AITyped'
  BY <1>1 DEF AIInv, AITyped
<1>5. TestsOK'
  BY <1>1, <1>2, TestsStay
<1>6. Assessed'
  <2>1. /\ Answered' = Answered /\ Valid' = Valid /\ JudgeResults' = JudgeResults
        /\ Disputed' = Disputed /\ Status' = Status /\ Reason' = Reason
        /\ JudgesNul' = JudgesNul
    BY <1>1, EvidenceStays
  <2>2. \E judge \in IF Answered = {} THEN {Missing} ELSE median(Valid) :
        \E total \in IF Status = "completed"
                       THEN calculate_ai_score(judge, adversarial.robustness) ELSE {Missing} :
          assessment' = [status |-> Status, reason |-> Reason, score |-> total,
                         judge |-> judge, disputed |-> Disputed,
                         spread |-> IF Answered = {} THEN Missing ELSE spread(Valid),
                         judges |-> JudgeResults, nul |-> JudgesNul,
                         adversarial |-> adversarial]
    BY DEF assess
  <2> QED
    BY <1>1, <2>1, <2>2 DEF Assessed
<1>7. AIFlow'
  BY <1>1, <1>2, <1>5, <1>6 DEF AIFlow
<1> QED
  BY <1>3, <1>4, <1>7 DEF AIInv

LEMMA CreateKeepsAIInv ==
  ASSUME AIInv, create_with_ai
  PROVE  AIInv'
<1>1. /\ phase = "done"
      /\ UNCHANGED <<setup, at, attempt, outcome, tests, counts, adversarial, assessment, shown>>
  BY DEF create_with_ai, callVars, caseVars
<1>2. \A k \in Calls : CallOK(k)'
  BY <1>1, CallsAtRest
<1>3. StorableAI(evaluation_record_from_snapshot(assessment)) \/ UnstorableText
  <2>1. CASE setup.gate = "open"
    <3>1. Assessed /\ TestsOK
      BY <1>1, <2>1 DEF AIInv, AIFlow
    <3>2. \A k \in Judges : Given(k)
      BY DEF AIInv, CallOK, Calls
    <3> QED
      BY <3>1, <3>2, StorableIs
  <2>2. CASE setup.gate # "open"
    <3>1. PICK gate : gate = setup.gate
      OBVIOUS
    <3>2. gate \in {"disabled", "ai_identity_mismatch", "provider_unavailable", "input_too_large"}
      BY <2>2, <3>1 DEF AIInv, AITyped, Setups
    <3>3. assessment = Gate(gate)
      BY <1>1, <2>2, <3>1 DEF AIInv, AIFlow
    <3> QED
      BY <3>2, <3>3, GateIs
  <2> QED
    BY <2>1, <2>2
<1>4. /\ phase' \in {"stored", "refused"}
      /\ phase' = "stored" => row' = evaluation_record_from_snapshot(assessment)
      /\ phase' = "refused" => UnstorableText
  BY <1>3 DEF create_with_ai
<1>5. AITyped'
  BY <1>1, <1>4 DEF AIInv, AITyped
<1>6. setup.gate = "open" => Assessed' /\ TestsOK'
  BY <1>1, AssessedStays, TestsStay DEF AIInv, AIFlow
<1>7. UnstorableText' <=> UnstorableText
  BY <1>1 DEF UnstorableText, WroteNul
<1>8. AIFlow'
  BY <1>1, <1>4, <1>6, <1>7 DEF AIInv, AIFlow
<1> QED
  BY <1>2, <1>5, <1>8 DEF AIInv

LEMMA GetKeepsAIInv ==
  ASSUME AIInv, get
  PROVE  AIInv'
<1>1. /\ phase = "stored" /\ phase' = "read" /\ shown' = _snapshot_from_record(row)
      /\ UNCHANGED <<setup, at, attempt, outcome, tests, counts, adversarial, assessment, row>>
  BY DEF get, callVars, caseVars
<1>2. \A k \in Calls : CallOK(k)'
  BY <1>1, CallsAtRest
<1>3. AITyped'
  BY <1>1 DEF AIInv, AITyped
<1>4. row = evaluation_record_from_snapshot(assessment)
  BY <1>1 DEF AIInv, AIFlow
<1>5. setup.gate = "open" => Assessed' /\ TestsOK'
  BY <1>1, AssessedStays, TestsStay DEF AIInv, AIFlow
<1>6. AIFlow'
  BY <1>1, <1>4, <1>5 DEF AIInv, AIFlow
<1> QED
  BY <1>2, <1>3, <1>6 DEF AIInv

LEMMA NothingKeepsAIInv ==
  ASSUME AIInv, UNCHANGED aiVars
  PROVE  AIInv'
<1>1. UNCHANGED <<setup, phase, at, attempt, outcome, tests, counts, adversarial, assessment, row, shown>>
  BY DEF aiVars, callVars, caseVars, storeVars
<1>2. AITyped'
  BY <1>1 DEF AIInv, AITyped
<1>3. \A k \in Calls : CallOK(k)'
  BY <1>1 DEF AIInv, CallOK, Given
<1>4. CasesOK => CasesOK'
  BY <1>1 DEF CasesOK
<1>5. /\ (Assessed => Assessed') /\ (TestsOK => TestsOK') /\ (Unassessed => Unassessed')
      /\ UnstorableText' <=> UnstorableText
  BY <1>1, AssessedStays, TestsStay DEF Unassessed, UnstorableText, WroteNul
<1>6. AIFlow'
  BY <1>1, <1>4, <1>5 DEF AIInv, AIFlow
<1> QED
  BY <1>2, <1>3, <1>6 DEF AIInv

LEMMA StepKeepsAIInv == AIInv /\ [AINext]_aiVars => AIInv'
<1> SUFFICES ASSUME AIInv, [AINext]_aiVars PROVE AIInv'
  OBVIOUS
<1>1. CASE \E k \in Calls : Call(k)
  BY <1>1, CallKeepsAIInv
<1>2. CASE Service
  BY <1>2, GatherKeepsAIInv, ValidateKeepsAIInv, CaseKeepsAIInv, UnavailableKeepsAIInv,
     RaiseKeepsAIInv, FinishKeepsAIInv, AssessKeepsAIInv, CreateKeepsAIInv, GetKeepsAIInv
  DEF Service
<1>3. CASE Finished \/ UNCHANGED aiVars
  BY <1>3, NothingKeepsAIInv DEF Finished
<1> QED
  BY <1>1, <1>2, <1>3 DEF AINext

LEMMA AlwaysAIInv == AISpec => []AIInv
BY AIInitInv, StepKeepsAIInv, PTL DEF AISpec

-----------------------------------------------------------------------------
(***************************************************************************)
(* What the invariant says of an assessment.                               *)
(***************************************************************************)

Concluded == phase \in {"done", "stored", "refused", "read"}

LEMMA BeforeTheEnd ==
  ASSUME AIInv, ~Concluded
  PROVE  assessment.status = None
<1>1. Unassessed
  BY DEF AIInv, AITyped, AIFlow, Concluded
<1> QED
  BY <1>1 DEF Unassessed, _assessment

LEMMA OpenIs ==
  ASSUME AIInv, Concluded, setup.gate = "open"
  PROVE  (\A k \in Judges : Given(k)) /\ Assessed /\ TestsOK
<1>1. \A k \in Judges : Given(k)
  BY DEF AIInv, CallOK, Calls
<1>2. Assessed /\ TestsOK
  BY DEF AIInv, AIFlow, Concluded
<1> QED
  BY <1>1, <1>2

LEMMA ClosedIs ==
  ASSUME AIInv, Concluded, setup.gate # "open"
  PROVE  /\ assessment = _assessment(assessment.status, assessment.reason)
         /\ assessment.status \in AIStatus /\ adversarial = _empty_adversarial(None, None)
         /\ assessment.score = Missing /\ assessment.judge = Missing
<1>1. PICK gate : gate = setup.gate
  OBVIOUS
<1>2. gate \in {"disabled", "ai_identity_mismatch", "provider_unavailable", "input_too_large"}
  BY <1>1 DEF AIInv, AITyped, Setups
<1>3. assessment = Gate(gate) /\ adversarial = _empty_adversarial(None, None)
  BY <1>1 DEF AIInv, AIFlow, Concluded
<1>4. assessment = _assessment(assessment.status, assessment.reason) /\ assessment.status \in AIStatus
  BY <1>2, <1>3, GateIs
<1>5. assessment.score = Missing /\ assessment.judge = Missing
  BY <1>4 DEF _assessment
<1> QED
  BY <1>3, <1>4, <1>5

LEMMA StatusIs ==
  /\ Status \in AIStatus /\ None \notin AIStatus
  /\ Status = "completed" <=> ~Disputed /\ Errors = {} /\ AdversarialValid
<1>1. Status \in AIStatus /\ None \notin AIStatus
  BY DEF Status, AIStatus, None
<1>2. Status = "completed" <=> ~Disputed /\ Errors = {} /\ AdversarialValid
  BY DEF Status
<1> QED
  BY <1>1, <1>2

LEMMA TypeFollows == AIInv => AITypeOK
<1> SUFFICES ASSUME AIInv PROVE AITypeOK
  OBVIOUS
<1>1. \A k \in Calls : outcome[k].code \in Codes \cup {None, "ok"}
  BY DEF AIInv, CallOK, Given
<1>2. \A f \in DOMAIN counts : counts[f] \in Nat
  BY DEF AIInv, AITyped
<1>3. Concluded => assessment.status # None /\ assessment.status \in AIStatus
  <2>1. ASSUME Concluded, setup.gate = "open" PROVE assessment.status = Status
    BY <2>1, OpenIs, AssessedIs
  <2>2. ASSUME Concluded, setup.gate # "open" PROVE assessment.status \in AIStatus
    BY <2>2, ClosedIs
  <2> QED
    BY <2>1, <2>2, StatusIs
<1>4. ~Concluded => assessment.status = None
  BY BeforeTheEnd
<1>5. (assessment.status # None) = (phase \in {"done", "stored", "refused", "read"})
  BY <1>3, <1>4 DEF Concluded
<1>6. assessment.status # None => assessment.status \in AIStatus
  BY <1>3, <1>4
<1> QED
  BY <1>1, <1>2, <1>5, <1>6 DEF AIInv, AITyped, AITypeOK

LEMMA EverythingFollows == AIInv => ScoreNeedsEverything
<1> SUFFICES ASSUME AIInv, assessment.status # None
             PROVE  (assessment.score # Missing) <=>
                      /\ setup.gate = "open"
                      /\ \A k \in Judges : outcome[k].code = "ok"
                      /\ \A i, k \in Judges : outcome[i].score - outcome[k].score <= Threshold
                      /\ assessment.adversarial.reference > 0
                      /\ assessment.adversarial.status = "completed"
  BY DEF ScoreNeedsEverything
<1>1. Concluded
  BY BeforeTheEnd
<1>2. CASE setup.gate # "open"
  BY <1>1, <1>2, ClosedIs
<1>3. CASE setup.gate = "open"
  <2>1. (\A k \in Judges : Given(k)) /\ Assessed /\ TestsOK
    BY <1>1, <1>3, OpenIs
  <2>2. /\ assessment.adversarial = adversarial
        /\ Status # "completed" => assessment.score = Missing
        /\ Status = "completed" => assessment.score # Missing
    BY <2>1, AssessedIs
  <2>3. Status = "completed" <=> ~Disputed /\ Errors = {} /\ AdversarialValid
    BY StatusIs
  <2>4. Errors = {} <=> \A k \in Judges : outcome[k].code = "ok"
    BY DEF Errors
  <2>5. AdversarialValid <=> adversarial.status = "completed" /\ adversarial.reference > 0
    <3>1. Missing \notin 0..FullScore
      BY DEF Missing, FullScore
    <3> QED
      BY <2>1, <3>1 DEF AdversarialValid, TestsOK
  <2>6. ASSUME \A k \in Judges : outcome[k].code = "ok"
        PROVE  ~Disputed <=> \A i, k \in Judges : outcome[i].score - outcome[k].score <= Threshold
    <3>1. Answered = Judges
      BY <2>6 DEF Answered
    <3>2. Disputed <=> \E i, k \in Answered : outcome[i].score - outcome[k].score > Threshold
      BY <2>1, DisputedIs
    <3>3. Threshold \in Int /\ \A k \in Judges : outcome[k].score \in Int
      <4>1. FullScore \in Nat
        BY DEF FullScore
      <4>2. \A k \in Judges : outcome[k].score \in 0..FullScore
        BY <2>1, <2>6, ScoreIsGiven
      <4> QED
        BY <4>1, <4>2, AIAssumption
    <3>4. \A i, k \in Judges : ~(outcome[i].score - outcome[k].score > Threshold)
                                 <=> outcome[i].score - outcome[k].score <= Threshold
      BY <3>3
    <3> QED
      BY <3>1, <3>2, <3>4
  <2> QED
    BY <1>3, <2>2, <2>3, <2>4, <2>5, <2>6
<1> QED
  BY <1>2, <1>3

LEMMA BetweenFollows == AIInv => ScoreIsBetween
<1> SUFFICES ASSUME AIInv, assessment.status # None
             PROVE  /\ assessment.judge # Missing =>
                         /\ assessment.judge >= Min(Range(assessment.judges))
                         /\ assessment.judge <= Max(Range(assessment.judges))
                    /\ assessment.score # Missing =>
                         /\ assessment.score >= Min({assessment.judge, assessment.adversarial.robustness})
                         /\ assessment.score <= Max({assessment.judge, assessment.adversarial.robustness})
  BY DEF ScoreIsBetween
<1>1. Concluded
  BY BeforeTheEnd
<1>2. CASE setup.gate # "open"
  BY <1>1, <1>2, ClosedIs
<1>3. CASE setup.gate = "open"
  <2>1. (\A k \in Judges : Given(k)) /\ Assessed /\ TestsOK
    BY <1>1, <1>3, OpenIs
  <2>2. /\ assessment.judges = Valid /\ assessment.adversarial = adversarial
        /\ assessment.judge # Missing => /\ Min(Range(Valid)) <= assessment.judge
                                         /\ assessment.judge <= Max(Range(Valid))
        /\ Status # "completed" => assessment.score = Missing
        /\ Status = "completed" =>
             /\ Min({assessment.judge, adversarial.robustness}) <= assessment.score
             /\ assessment.score <= Max({assessment.judge, adversarial.robustness})
    BY <2>1, AssessedIs
  <2>3. \A x, y : x <= y <=> y >= x
    OBVIOUS
  <2> QED
    BY <2>2, <2>3
<1> QED
  BY <1>2, <1>3

LEMMA CountsFollow == AIInv => CountsAgree
<1> SUFFICES ASSUME AIInv, adversarial.status # None PROVE CountsAgree
  BY DEF CountsAgree
<1>1. adversarial # _empty_adversarial(None, None)
  BY DEF _empty_adversarial
<1>2. TestsOK
  BY <1>1 DEF AIInv, AITyped, AIFlow
<1> QED
  BY <1>2 DEF TestsOK

LEMMA DistinctFollows == AIInv => TestsAreDistinct
<1> SUFFICES ASSUME AIInv, phase = "cases", NEW i \in Range(tests), NEW j \in Range(tests), i # j
             PROVE  /\ outcome[Generator].draft[i].name # outcome[Generator].draft[j].name
                    /\ outcome[Generator].draft[i].code # outcome[Generator].draft[j].code
  BY DEF TestsAreDistinct
<1>1. PICK draft, n, tidy :
        draft = outcome[Generator].draft /\ n = Len(draft) /\ tidy = deduplicate_and_validate(draft)
  OBVIOUS
<1>2. CasesOK
  BY DEF AIInv, AIFlow
<1>3. i \in tidy /\ j \in tidy
  <2>1. tests \in Seq(tidy)
    BY <1>1, <1>2 DEF CasesOK
  <2>2. Range(tests) \in SUBSET tidy
    BY <2>1 DEF Range
  <2> QED
    BY <2>2
<1>4. draft \in Drafts
  <2>1. Generator \in Calls
    BY DEF Calls
  <2> QED
    BY <1>1, <1>2, <2>1 DEF AIInv, CallOK, Given, CasesOK
<1>5. n \in Nat /\ DOMAIN draft = 1..n
  BY <1>1, <1>4, AIAssumption
<1>6. \A x, y \in tidy : x # y => ~Same(draft[x], draft[y])
  BY <1>1, <1>5, KeptAreDistinct
<1> QED
  BY <1>1, <1>3, <1>6 DEF Same

LEMMA KeptFollows == AIInv => AssessmentIsKept
<1> SUFFICES ASSUME AIInv PROVE AssessmentIsKept
  OBVIOUS
<1>1. phase = "refused" => UnstorableText
  BY DEF AIInv, AIFlow
<1>2. ASSUME phase = "read" PROVE shown = assessment
  <2>1. Concluded /\ shown = _snapshot_from_record(evaluation_record_from_snapshot(assessment))
    BY <1>2 DEF AIInv, AIFlow, Concluded
  <2>2. assessment = [status |-> assessment.status, reason |-> assessment.reason,
                      score |-> assessment.score, judge |-> assessment.judge,
                      disputed |-> assessment.disputed, spread |-> assessment.spread,
                      judges |-> assessment.judges, nul |-> assessment.nul,
                      adversarial |-> assessment.adversarial]
    <3>1. CASE setup.gate = "open"
      BY <2>1, <3>1, OpenIs, AssessedIs
    <3>2. CASE setup.gate # "open"
      <4>1. assessment = _assessment(assessment.status, assessment.reason)
        BY <2>1, <3>2, ClosedIs
      <4> QED
        BY <4>1 DEF _assessment
    <3> QED
      BY <3>1, <3>2
  <2> QED
    BY <2>1, <2>2 DEF _snapshot_from_record, evaluation_record_from_snapshot
<1>3. ASSUME phase = "read", setup.gate = "open"
      PROVE  /\ InModelOrder(assessment.judges)
             /\ assessment.disputed <=>
                  \E i, k \in DOMAIN assessment.judges :
                      assessment.judges[i] - assessment.judges[k] > Threshold
  <2>1. Concluded
    BY <1>3 DEF Concluded
  <2>2. (\A k \in Judges : Given(k)) /\ Assessed /\ TestsOK
    BY <1>3, <2>1, OpenIs
  <2>3. assessment.disputed = Disputed /\ assessment.judges = Valid
    BY <2>2, AssessedIs
  <2>4. InModelOrder(Valid)
    <3>1. PICK s, n : s = Valid /\ n = Cardinality(Answered)
      OBVIOUS
    <3>2. ScoresOf(n, s)
      BY <2>2, <3>1, ValidIs
    <3> QED
      BY <3>1, <3>2 DEF ScoresOf
  <2>5. Disputed <=> \E i, k \in DOMAIN Valid : Valid[i] - Valid[k] > Threshold
    BY <2>2, DisputedIs
  <2> QED
    BY <2>3, <2>4, <2>5
<1> QED
  BY <1>1, <1>2, <1>3 DEF AssessmentIsKept

\* assess, _complete: in every behaviour, for any number of judges, of slots and of
\* attempts, a call is attempted at most MaxAttempts times, and an assessment with one
\* of the six statuses exists exactly when the service has ended.
THEOREM AITypeCorrect == AISpec => []AITypeOK
BY AlwaysAIInv, TypeFollows, PTL

\* assess, calculate_ai_score, AdversarialService.evaluate: in every behaviour a score
\* exists exactly when every judge answered, they agree, and tests that the reference
\* passed were run; it lies between its parts, and the counters of the tests add up
\* over distinct tests.
THEOREM AssessmentsAreSound == AISpec => []ScoreIsSound
<1>1. AIInv => ScoreIsSound
  BY EverythingFollows, BetweenFollows, CountsFollow, DistinctFollows DEF ScoreIsSound
<1> QED
  BY <1>1, AlwaysAIInv, PTL

\* _run_judges, create, get: in every behaviour the table refuses an assessment only when
\* a model wrote a text that PostgreSQL or the reason column cannot hold, and otherwise it
\* is read back with the judges in the order of the configured models, in whatever order
\* their calls ended.
THEOREM AssessmentsAreKept == AISpec => []AssessmentIsKept
BY AlwaysAIInv, KeptFollows, PTL

=============================================================================
