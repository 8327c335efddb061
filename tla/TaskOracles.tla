----------------------------- MODULE TaskOracles -----------------------------
(***************************************************************************)
(* Four of the trusted solutions under app/tasks/definitions, against      *)
(* which generated tests are validated and official cases are written: the *)
(* sliding-window rate limiter, the circuit breaker, the length-prefixed   *)
(* frame decoder and the dependency resolver.  (The fifth, process_batch,  *)
(* is BatchProcessor.)                                                     *)
(*                                                                         *)
(* An object is a record; an operation gives what it answers and the       *)
(* object afterwards.  A loop that works through a buffer is one operator  *)
(* per iteration.  Times are integers (thousandths of a second), strings   *)
(* sequences of characters, node names numbers in the order of the names.  *)
(*                                                                         *)
(* A definition with a suffix is a mistaken form of the one that follows.  *)
(***************************************************************************)
EXTENDS Integers, Sequences, FiniteSets, SequencesExt

\* A Python number: bool is not accepted where an int is asked for.
Integer(n) == [kind |-> "int", value |-> n]
True == [kind |-> "bool", value |-> 1]
Float(n) == [kind |-> "float", value |-> n]

PositiveInt(x) == x.kind = "int" /\ x.value > 0
PositiveNumber(x) == x.kind # "bool" /\ x.value > 0

\* The outcome of an operation and the object it leaves
Returns(o, value) == [object |-> o, ok |-> TRUE, value |-> value]
Raises(o, type) == [object |-> o, ok |-> FALSE, value |-> type]

NoObject == [class |-> "none"]

With(f, key, value) == [k \in DOMAIN f \cup {key} |-> IF k = key THEN value ELSE f[k]]
Lookup(f, key, default) == IF key \in DOMAIN f THEN f[key] ELSE default
EmptyDict == [k \in {} |-> 0]

-----------------------------------------------------------------------------
(* SlidingWindowRateLimiter *)

NewLimiter(limit, window) ==
  IF PositiveInt(limit) /\ PositiveNumber(window)
  THEN Returns([class |-> "limiter", limit |-> limit.value, window |-> window.value,
                events |-> EmptyDict, last_call |-> EmptyDict], "None")
  ELSE Raises(NoObject, "ValueError")

\* while events and events[0] <= boundary: events.popleft()
Pruned_Exclusive(events, boundary) ==
  LET old == {n \in DOMAIN events : \A m \in 1..n : events[m] < boundary}
  IN SubSeq(events, Cardinality(old) + 1, Len(events))

Pruned(events, boundary) ==
  LET old == {n \in DOMAIN events : \A m \in 1..n : events[m] <= boundary}
  IN SubSeq(events, Cardinality(old) + 1, Len(events))

allow(o, key, now) ==
  LET live == Pruned(Lookup(o.events, key, <<>>), now - o.window)
      full == Len(live) >= o.limit
  IN IF now < Lookup(o.last_call, key, now) THEN Raises(o, "ValueError")
     ELSE Returns([o EXCEPT !.last_call = With(@, key, now),
                            !.events = With(@, key, IF full THEN live ELSE Append(live, now))],
                  IF full THEN "False" ELSE "True")

-----------------------------------------------------------------------------
(* CircuitBreaker *)

Never == -1000000   \* None, as a time

NewBreaker(failure_threshold, recovery_timeout) ==
  IF PositiveInt(failure_threshold) /\ PositiveNumber(recovery_timeout)
  THEN Returns([class |-> "breaker", threshold |-> failure_threshold.value,
                recovery_timeout |-> recovery_timeout.value, state |-> "closed",
                failure_count |-> 0, opened_at |-> Never, last_now |-> Never], "None")
  ELSE Raises(NoObject, "ValueError")

reset(o) == Returns([o EXCEPT !.state = "closed", !.failure_count = 0, !.opened_at = Never,
                              !.last_now = Never], "None")

Open(o, now) == [o EXCEPT !.state = "open", !.opened_at = now, !.failure_count = 0]

\* A mistaken form: a failed probe is counted like any other failure.
Failed_CountsProbe(o, now) ==
  IF o.failure_count + 1 >= o.threshold THEN Open(o, now)
  ELSE [o EXCEPT !.state = "closed", !.failure_count = @ + 1]

Failed(o, now) ==
  IF o.state = "half_open" \/ o.failure_count + 1 >= o.threshold THEN Open(o, now)
  ELSE [o EXCEPT !.failure_count = @ + 1]

Refused(o, now) == o.state = "open" /\ now < o.opened_at + o.recovery_timeout

\* The breaker while the operation runs
Entered(o, now) ==
  [o EXCEPT !.last_now = now, !.state = IF @ = "open" THEN "half_open" ELSE @]

\* operation: it returns a value, raises an Exception, or raises what is not an
\* Exception (an interrupt) and so passes the handler.
call(o, operation, now) ==
  LET c == Entered(o, now)
  IN CASE now < o.last_now -> Raises(o, "ValueError")
       [] now >= o.last_now /\ Refused(o, now) -> Raises([o EXCEPT !.last_now = now], "CircuitOpenError")
       [] now >= o.last_now /\ ~Refused(o, now) ->
            CASE operation.kind = "raise" -> Raises(Failed(c, now), "RuntimeError")
              [] operation.kind = "interrupt" -> Raises(c, "KeyboardInterrupt")
              [] OTHER -> Returns([c EXCEPT !.state = "closed", !.failure_count = 0,
                                            !.opened_at = Never], operation.value)

\* Whether call invokes the operation
Invoked(o, now) == now >= o.last_now /\ ~Refused(o, now)

-----------------------------------------------------------------------------
(* LengthPrefixedDecoder *)

Digits == [c \in {"0", "1", "2", "3"} |-> CASE c = "0" -> 0 [] c = "1" -> 1 [] c = "2" -> 2 [] c = "3" -> 3]
IsDigits(s) == \A n \in DOMAIN s : s[n] \in DOMAIN Digits
\* int(s)
Number(s) == FoldLeft(LAMBDA n, c : 10 * n + Digits[c], 0, s)

valid_prefix(s) == s # <<>> /\ IsDigits(s) /\ (s = <<"0">> \/ s[1] # "0")

\* _validate_partial_prefix raises
PartialPrefixFails(d) ==
  d.buffer # <<>> /\ (~IsDigits(d.buffer) \/ (d.buffer[1] = "0" /\ Len(d.buffer) > 1)
                      \/ Number(d.buffer) > d.maximum)

Nothing == -1   \* _expected is None

NewDecoder(max_frame_size) ==
  [class |-> "decoder", maximum |-> max_frame_size, buffer |-> <<>>, expected |-> Nothing,
   frames |-> <<>>, phase |-> "returned"]

\* feed up to its loop
feed(d, chunk) == [d EXCEPT !.buffer = @ \o chunk, !.frames = <<>>, !.phase = "loop"]

\* except ValueError: self._reset()
Malformed(d) == [d EXCEPT !.buffer = <<>>, !.expected = Nothing, !.frames = <<>>, !.phase = "raised"]

Return(d) == [d EXCEPT !.phase = "returned"]

TakeFrame(d) ==
  IF Len(d.buffer) < d.expected THEN Return(d)
  ELSE [d EXCEPT !.frames = Append(@, SubSeq(d.buffer, 1, d.expected)),
                 !.buffer = SubSeq(@, d.expected + 1, Len(@)), !.expected = Nothing]

\* A mistaken form: a frame is taken only when more input follows it.
Decode_Exclusive(d) ==
  LET colons == {n \in DOMAIN d.buffer : d.buffer[n] = ":"}
      separator == Min(colons)
      prefix == SubSeq(d.buffer, 1, separator - 1)
      rest == [d EXCEPT !.buffer = SubSeq(@, separator + 1, Len(@)), !.expected = Number(prefix)]
  IN CASE d.expected # Nothing -> IF Len(d.buffer) <= d.expected THEN Return(d) ELSE TakeFrame(d)
       [] d.expected = Nothing /\ colons = {} -> IF PartialPrefixFails(d) THEN Malformed(d) ELSE Return(d)
       [] OTHER -> IF ~valid_prefix(prefix) \/ Number(prefix) > d.maximum THEN Malformed(d)
                   ELSE IF Len(rest.buffer) <= rest.expected THEN Return(rest) ELSE TakeFrame(rest)

\* One iteration of the loop in feed
Decode(d) ==
  LET colons == {n \in DOMAIN d.buffer : d.buffer[n] = ":"}
      separator == Min(colons)
      prefix == SubSeq(d.buffer, 1, separator - 1)
  IN CASE d.expected # Nothing -> TakeFrame(d)
       [] d.expected = Nothing /\ colons = {} -> IF PartialPrefixFails(d) THEN Malformed(d) ELSE Return(d)
       [] OTHER -> IF ~valid_prefix(prefix) \/ Number(prefix) > d.maximum THEN Malformed(d)
                   ELSE TakeFrame([d EXCEPT !.buffer = SubSeq(@, separator + 1, Len(@)),
                                            !.expected = Number(prefix)])

finish(d) == IF d.buffer # <<>> \/ d.expected # Nothing THEN Malformed(d) ELSE Return([d EXCEPT !.frames = <<>>])

-----------------------------------------------------------------------------
(* resolve_dependencies *)

\* The graph gives the dependencies of some nodes; a dependency may be no key of it.
AllNodes(graph) == DOMAIN graph \cup UNION Range(graph)

\* resolve_dependencies up to its loop
resolve_dependencies(graph) ==
  LET nodes == AllNodes(graph)
      degree == [n \in nodes |-> Cardinality(Lookup(graph, n, {}))]
  IN [class |-> "resolver", graph |-> graph, indegree |-> degree,
      available |-> {n \in nodes : degree[n] = 0}, resolved |-> <<>>, phase |-> "loop"]

Dependents(r, node) == {n \in DOMAIN r.graph : node \in r.graph[n]}

\* A mistaken form: the end of the queue is not checked for a cycle.
Resolve_Unchecked(r) ==
  LET node == Min(r.available)
      degree == [n \in DOMAIN r.indegree |-> r.indegree[n] - IF n \in Dependents(r, node) THEN 1 ELSE 0]
  IN IF r.available = {} THEN [r EXCEPT !.phase = "returned"]
     ELSE [r EXCEPT !.indegree = degree, !.resolved = Append(@, node),
                    !.available = (@ \ {node}) \cup {n \in Dependents(r, node) : degree[n] = 0}]

\* One iteration of the loop, or its end
Resolve(r) ==
  LET node == Min(r.available)
      degree == [n \in DOMAIN r.indegree |-> r.indegree[n] - IF n \in Dependents(r, node) THEN 1 ELSE 0]
  IN IF r.available = {}
     THEN [r EXCEPT !.phase = IF Len(r.resolved) = Cardinality(DOMAIN r.indegree) THEN "returned"
                              ELSE "DependencyCycleError"]
     ELSE [r EXCEPT !.indegree = degree, !.resolved = Append(@, node),
                    !.available = (@ \ {node}) \cup {n \in Dependents(r, node) : degree[n] = 0}]

=============================================================================
