---------------------------- MODULE OfficialCases ----------------------------
(***************************************************************************)
(* OFFICIAL_CASES of app/runners/trusted_harness.py, for three tasks: the  *)
(* steps that the harness sends, with what it expects of each.  Times are  *)
(* in thousandths of a second.                                             *)
(***************************************************************************)
EXTENDS BatchProcessor, TaskOracles

\* _expect, with what the command returns, raises and records
Expect(command, result, exception, telemetry) ==
  [command |-> command, result |-> result, exception |-> exception, telemetry |-> telemetry]

Construct(class, id, first, second) ==
  [op |-> "construct", class |-> class, object_id |-> id, args |-> <<first, second>>]
Method(id, method, args) == [op |-> "call_method", object_id |-> id, method |-> method, args |-> args]
Attr(id) == [op |-> "get_attr", object_id |-> id]
Function(plan) == [op |-> "call_function", plan |-> plan]

Makes(class, id, first, second) == <<Expect(Construct(class, id, first, second), "None", "none", EmptyDict)>>
Rejects(class, id, first, second) == <<Expect(Construct(class, id, first, second), "None", "ValueError", EmptyDict)>>
Second == 1000

\* The answers of allow, in order: a time in thousandths and what is expected
Allows(id, key, answers) ==
  [n \in DOMAIN answers |->
     IF answers[n][2] = "ValueError"
     THEN Expect(Method(id, "allow", <<key, answers[n][1]>>), "None", "ValueError", EmptyDict)
     ELSE Expect(Method(id, "allow", <<key, answers[n][1]>>), answers[n][2], "none", EmptyDict)]

Invalid(class) ==
  FoldLeft(LAMBDA steps, n : steps \o Rejects(class, "x", n, Integer(Second)), <<>>,
           <<Integer(0), Integer(-1), True, Float(1500)>>)
  \o FoldLeft(LAMBDA steps, n : steps \o Rejects(class, "x", Integer(1), n), <<>>,
              <<Integer(0), Integer(-1), True>>)

rate_cases ==
  LET Limiter(id, limit, seconds) == Makes("limiter", id, Integer(limit), Integer(seconds * Second))
  IN << Limiter("r", 2, 10) \o Allows("r", "user", <<<<0, "True">>, <<1000, "True">>, <<2000, "False">>,
                                                    <<10000, "True">>, <<10500, "False">>, <<11000, "True">>>>),
        Limiter("r", 1, 5) \o Allows("r", "key", <<<<10000, "True">>, <<14999, "False">>, <<15000, "True">>>>),
        Invalid("limiter"),
        Limiter("r", 1, 10) \o Allows("r", "a", <<<<0, "True">>, <<1000, "False">>>>)
                            \o Allows("r", "b", <<<<1000, "True">>, <<2000, "False">>>>),
        Limiter("r", 3, 10) \o Allows("r", "key", <<<<0, "True">>, <<1000, "True">>, <<9000, "True">>, <<10000, "True">>,
                                                   <<10500, "False">>, <<11000, "True">>, <<19000, "True">>>>),
        Limiter("r", 2, 10) \o Allows("r", "a", <<<<5000, "True">>, <<4900, "ValueError">>>>)
                            \o Allows("r", "b", <<<<-100000, "True">>>>) \o Allows("r", "a", <<<<5000, "True">>>>),
        Limiter("first", 1, 10) \o Limiter("second", 1, 10)
          \o Allows("first", "same", <<<<0, "True">>, <<1000, "False">>>>) \o Allows("second", "same", <<<<1000, "True">>>>) >>

circuit_cases ==
  LET Breaker(id, threshold, seconds) == Makes("breaker", id, Integer(threshold), Integer(seconds * Second))
      Call(id, kind, value, now) == Method(id, "call", <<[kind |-> kind, value |-> value], now>>)
      Fails(id, now) == <<Expect(Call(id, "raise", "None", now), "None", "RuntimeError", EmptyDict)>>
      Succeeds(id, value, now) == <<Expect(Call(id, "return", value, now), value, "none", EmptyDict)>>
      Refuses(id, now, exception) == <<Expect(Call(id, "return", "None", now), "None", exception, EmptyDict)>>
      State(id, state) == <<Expect(Attr(id), state, "none", EmptyDict)>>
  IN << Breaker("b", 2, 10) \o Fails("b", 0) \o State("b", "closed") \o Succeeds("b", "ok", 1000)
          \o Fails("b", 2000) \o State("b", "closed"),
        Breaker("b", 2, 10) \o Fails("b", 0) \o Fails("b", 1000) \o State("b", "open")
          \o <<Expect(Call("b", "return", "None", 10999), "None", "CircuitOpenError", [calls |-> 0])>>
          \o State("b", "open"),
        Invalid("breaker"),
        Breaker("b", 1, 5) \o Fails("b", 10000) \o Refuses("b", 14999, "CircuitOpenError")
          \o <<Expect(Call("b", "observe_attribute", "42", 15000), "42", "none", [calls |-> 1, observed |-> "half_open"])>>
          \o State("b", "closed"),
        Breaker("b", 1, 5) \o Fails("b", 0) \o Fails("b", 5000) \o State("b", "open")
          \o Refuses("b", 9999, "CircuitOpenError") \o Succeeds("b", "recovered", 10000) \o State("b", "closed"),
        Breaker("first", 2, 5) \o Breaker("second", 2, 5) \o Succeeds("first", "1", 10000)
          \o Refuses("first", 9000, "ValueError") \o Succeeds("second", "3", -100000) \o State("second", "closed"),
        Breaker("b", 1, 100) \o Fails("b", 50000) \o State("b", "open")
          \o <<Expect(Method("b", "reset", <<>>), "None", "none", EmptyDict)>>
          \o State("b", "closed") \o Succeeds("b", "ok", 0) >>

async_cases ==
  LET Batch(items, concurrency, mode, special, transformed) ==
        Function(Plan(items, concurrency, mode, special, transformed, FALSE))
      Raising(concurrency) == Expect(Batch(<<>>, concurrency, "identity", 0, "identity"), <<>>, "ValueError", EmptyDict)
  IN << <<Expect(Batch(<<>>, Integer(1), "identity", 0, "identity"), <<>>, "none", [calls |-> 0]),
          Raising(Integer(0)), Raising(Integer(-1)), Raising(True), Raising(Float(1500))>>,
        <<Expect(Batch(<<"first", "second">>, Integer(2), "ordered", "first", "upper"),
                 <<"FIRST", "SECOND">>, "none", [calls |-> 2, maximum_active |-> 2])>>,
        <<Expect(Batch(<<1, 2, 3, 4>>, Integer(2), "concurrency_probe", 2, "double"),
                 <<2, 4, 6, 8>>, "none", [calls |-> 4, maximum_active |-> 2])>>,
        <<Expect(Batch(<<1, 2>>, Integer(2), "failure_cleanup", 1, "identity"),
                 <<>>, "RuntimeError", [calls |-> 2, cancelled |-> 1])>>,
        <<Expect(Function(Plan(<<1, 2, 3>>, Integer(2), "block", 0, "identity", TRUE)),
                 <<>>, "CancelledError", [calls |-> 2, cancelled |-> 2])>>,
        <<Expect(Batch(<<1, 2>>, Integer(10), "identity", 0, "increment"), <<2, 3>>, "none", [calls |-> 2])>> >>

Official == [t \in {"rate-limiter", "circuit-breaker", "async-batch-processor"} |->
               CASE t = "rate-limiter" -> rate_cases
                 [] t = "circuit-breaker" -> circuit_cases
                 [] t = "async-batch-processor" -> async_cases]

=============================================================================
