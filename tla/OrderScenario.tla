--------------------------- MODULE OrderScenario ---------------------------
(***************************************************************************)
(* ASB-04 (three_graph_asb04_demo.py, finalize_asb04_three_graph_          *)
(* evidence.py): an order is committed and the answer is lost.  Until the  *)
(* order is looked up by its idempotency key nothing may be sent again.    *)
(* The run is told three times, as a graph of the idea, of the intent and  *)
(* of the facts, and the graphs are compared.                              *)
(***************************************************************************)
EXTENDS EvidenceFiles

Order ==
    [case |-> "ASB-04", mode |-> "none",
     request |-> [code |-> "CREATE_ORDER_ONCE", constraints |-> "idempotency_key_required",
                  key |-> "order-key-001", intent |-> "create-order-once"]]

NoKey == ""

OrderInputs ==
    {[Order EXCEPT !.mode = m] : m \in {"none", "blind_retry", "new_idempotency_key"}}
    \cup {[Order EXCEPT !.request = r] :
        r \in Variants(Order.request, [code |-> {"other"}, constraints |-> {"other"},
                                       key |-> {NoKey, "order-key-002"}, intent |-> {"other"}])}

-----------------------------------------------------------------------------
(* Graphs.                                                                 *)

(* A graph whose nodes are numbered; Parents[i] is the causal parent of i  *)
(* (0: none), and links are the edges as <<from, to, relation>>.           *)
Graph(kind, intent, states, Parents, links) ==
    [kind |-> kind, intent |-> intent, links |-> links,
     nodes |-> {[id |-> i, state |-> states[i], parent |-> Parents[i]] : i \in DOMAIN states}]

Line(states, relations) ==
    [Parents |-> [i \in DOMAIN states |-> i - 1],
     links   |-> {<<i, i + 1, relations[i]>> : i \in DOMAIN relations}]

IdeaStates ==
    << "CREATE_EXACTLY_ONE_ORDER", "USE_STABLE_IDEMPOTENCY_KEY", "DISPATCH_ONCE",
       "PAUSE_AND_RECONCILE_ON_UNKNOWN", "VERIFY_EXACTLY_ONE_ORDER" >>

IdeaGraph(in) ==
    LET line == Line(IdeaStates, << "requires", "enables", "guards", "requires" >>)
    IN  Graph("idea", in.request.intent, IdeaStates, line.Parents, line.links)

IntentStates ==
    << "CREATE_ORDER_ONCE", "ONE_CUSTOMER_ONE_ITEM_ONE_QUANTITY", "IDEMPOTENCY_KEY_BOUND",
       "ONE_DISPATCH_AUTHORIZED", "ONLY_RECONCILIATION_WHILE_UNKNOWN",
       "COMPLETE_ONLY_IF_EXACTLY_ONE_ORDER" >>

IntentGraph(in) ==
    LET line == Line(IntentStates, << "narrows", "binds", "authorizes", "limits", "requires" >>)
    IN  Graph("intent", in.request.intent, IntentStates, line.Parents, line.links)

States(graph) == {n.state : n \in graph.nodes}

(* validate_graph(): node ids are unique, parents and ends of edges exist, *)
(* and there is no cycle: no set of nodes each with an edge into the set.  *)
ValidGraph(graph, kind) ==
    LET ids == {n.id : n \in graph.nodes} IN
    /\ graph.kind = kind
    /\ graph.nodes # {} /\ graph.links # {}
    /\ Cardinality(ids) = Cardinality(graph.nodes)
    /\ \A n \in graph.nodes : n.parent # 0 => n.parent \in ids
    /\ \A l \in graph.links : l[1] \in ids /\ l[2] \in ids
    /\ ~\E loop \in SUBSET ids \ {{}} :
           \A i \in loop : \E l \in graph.links : l[1] = i /\ l[2] \in loop

-----------------------------------------------------------------------------
(* The run.                                                                *)

FirstAttempt(in)   == [action |-> "create_order", key |-> in.request.key]
SecondAttempt(in)  ==
    [action |-> in.mode,
     key |-> IF in.mode = "blind_retry" THEN in.request.key ELSE "order-key-002"]

Attempts(in) == IF in.mode = "none" THEN << FirstAttempt(in) >>
                                    ELSE << FirstAttempt(in), SecondAttempt(in) >>

(* The server commits an order per key: a retry under the same key finds   *)
(* the order that is there.                                                *)
CommittedOrder(in) == [id |-> 1, intent |-> in.request.intent, key |-> in.request.key]
Orders(in) ==
    IF in.mode = "new_idempotency_key"
    THEN << CommittedOrder(in), [CommittedOrder(in) EXCEPT !.id = 2, !.key = "order-key-002"] >>
    ELSE << CommittedOrder(in) >>

Timeout(in)  == [execution |-> "POSSIBLY_COMMITTED", business |-> "UNKNOWN",
                 key |-> in.request.key]
Pause(in)    == [action |-> "pause_retry", reason |-> "unknown_commit_state"]
Matching(in) == SelectSeq(Orders(in), LAMBDA order : order.key = in.request.key)
Readback(in) == [key |-> in.request.key, matching |-> Len(Matching(in)),
                 all |-> Len(Orders(in))]

OneOrder(in) == Len(Orders(in)) = 1

FactStates(in) ==
    << "REQUEST_CREATED", "DISPATCHED", "ORDER_COMMITTED", "TIMEOUT_AFTER_DISPATCH",
       "UNKNOWN_COMMIT_OUTCOME", "RETRY_PAUSED", "IDEMPOTENCY_READBACK",
       IF OneOrder(in) THEN "EXACTLY_ONE_ORDER" ELSE "DIVERGED_ORDER_COUNT" >>

FactGraph(in) ==
    Graph("fact", in.request.intent, FactStates(in), << 0, 1, 2, 2, 4, 5, 6, 7 >>,
          {<<1, 2, "dispatches">>, <<2, 3, "may_commit">>, <<2, 4, "timeout_after_dispatch">>,
           <<4, 5, "causes">>, <<5, 6, "requires_containment">>,
           <<6, 7, "deduplicate_before_retry">>, <<7, 8, "verifies">>})

BlindRetryAbsent(in) == \A i \in DOMAIN Attempts(in) : Attempts(in)[i].action # "blind_retry"
NewKeyAbsent(in)     == \A i \in DOMAIN Attempts(in) : Attempts(in)[i].key = in.request.key

Mismatches(in) ==
    {m \in {"blind_retry", "new_idempotency_key", "order_count_not_one"} :
        CASE m = "blind_retry"         -> ~BlindRetryAbsent(in)
          [] m = "new_idempotency_key" -> ~NewKeyAbsent(in)
          [] m = "order_count_not_one" -> ~OneOrder(in)}

Alignment(in) ==
    [intent |-> in.request.intent, bound_key |-> in.request.key,
     strategy_present |-> "PAUSE_AND_RECONCILE_ON_UNKNOWN" \in States(IdeaGraph(in)),
     unknown_recorded |-> "UNKNOWN_COMMIT_OUTCOME" \in States(FactGraph(in)),
     retry_paused |-> "RETRY_PAUSED" \in States(FactGraph(in)),
     readback_performed |-> "IDEMPOTENCY_READBACK" \in States(FactGraph(in)),
     mismatches |-> Mismatches(in)]

OrderReport(in) ==
    [checks |-> [idea_graph_complete |-> Alignment(in).strategy_present,
                 intent_graph_binds_original_key |-> Alignment(in).bound_key = in.request.key,
                 fact_graph_records_unknown_commit_state |-> Alignment(in).unknown_recorded,
                 pause_retry |-> Alignment(in).retry_paused,
                 query_by_idempotency_key |-> Alignment(in).readback_performed,
                 blind_retry_absent |-> BlindRetryAbsent(in),
                 new_idempotency_key_absent |-> NewKeyAbsent(in),
                 order_count_equals_one |-> OneOrder(in),
                 idempotency_key_matches |-> Len(Matching(in)) = 1,
                 three_graphs_aligned |-> Mismatches(in) = {}],
     forbidden |-> Tail(Attempts(in)),
     evidence |-> Digest(<< Orders(in), Alignment(in) >>)]

(* A forbidden second attempt is appended to the log, then sent.           *)
RetrySteps(in) ==
    IF in.mode = "none" THEN << >>
    ELSE << Write(TRUE, "attempts", Attempts(in)), Write(TRUE, "server", Orders(in)) >>

(* run_demo().  The server's orders are a list in the script's memory.     *)
OrderSteps(in) ==
    << Write(/\ in.request.code = "CREATE_ORDER_ONCE"
             /\ in.request.constraints = "idempotency_key_required"
             /\ in.request.key # NoKey,
             "attempts", << >>),
       Write(TRUE, "request", in.request),
       Write(TRUE, "idea_graph", IdeaGraph(in)),
       Write(TRUE, "intent_graph", IntentGraph(in)),
       Write(TRUE, "attempts", << FirstAttempt(in) >>),
       Write(TRUE, "server", << CommittedOrder(in) >>),
       Write(TRUE, "orders_after_commit", << CommittedOrder(in) >>),
       Write(TRUE, "timeout", Timeout(in)) >>
    \o RetrySteps(in)
    \o << Write(TRUE, "retry_containment", Pause(in)),
          Write(TRUE, "orders_final", Orders(in)),
          Write(TRUE, "readback", Readback(in)),
          Write(TRUE, "fact_graph", FactGraph(in)),
          Write(TRUE, "alignment", Alignment(in)),
          Write(TRUE, "verification_report", OrderReport(in)),
          Require(\A c \in DOMAIN OrderReport(in).checks : OrderReport(in).checks[c]) >>

OrderRaw ==
    << "request", "attempts", "orders_after_commit", "timeout", "retry_containment",
       "orders_final", "readback", "verification_report", "idea_graph", "intent_graph",
       "fact_graph", "alignment" >>

(* What finalize() requires of the copied evidence: the raw events,        *)
EventsHold(b) ==
    LET key == b["request"].key IN
    /\ b["request"].code = "CREATE_ORDER_ONCE"
    /\ b["request"].constraints = "idempotency_key_required"
    /\ key # NoKey
    /\ b["attempts"] = << [action |-> "create_order", key |-> key] >>
    /\ Len(b["orders_after_commit"]) = 1
    /\ b["orders_final"] = << [id |-> 1, intent |-> b["request"].intent, key |-> key] >>
    /\ b["timeout"] = [execution |-> "POSSIBLY_COMMITTED", business |-> "UNKNOWN", key |-> key]
    /\ b["retry_containment"] = [action |-> "pause_retry", reason |-> "unknown_commit_state"]
    /\ b["readback"] = [key |-> key, matching |-> 1, all |-> 1]

(* then the graphs, their alignment and the report.                        *)
GraphsHold(b) ==
    LET idea == b["idea_graph"]   intent == b["intent_graph"]   fact == b["fact_graph"] IN
    /\ ValidGraph(idea, "idea") /\ ValidGraph(intent, "intent") /\ ValidGraph(fact, "fact")
    /\ \A g \in {idea, intent, fact} : g.intent = b["request"].intent
    /\ "PAUSE_AND_RECONCILE_ON_UNKNOWN" \in States(idea)
    /\ "ONLY_RECONCILIATION_WHILE_UNKNOWN" \in States(intent)
    /\ {"UNKNOWN_COMMIT_OUTCOME", "RETRY_PAUSED", "IDEMPOTENCY_READBACK", "EXACTLY_ONE_ORDER"}
          \subseteq States(fact)
    /\ {"timeout_after_dispatch", "deduplicate_before_retry"} \subseteq {l[3] : l \in fact.links}
    /\ b["alignment"].intent = b["request"].intent
    /\ b["alignment"].mismatches = {}

ReportHolds(b) ==
    LET report == b["verification_report"] IN
    /\ \A c \in DOMAIN report.checks : report.checks[c]
    /\ report.forbidden = << >>
    /\ report.evidence = Digest(<< b["orders_final"], b["alignment"] >>)

OrderHolds(b) == EventsHold(b) /\ GraphsHold(b) /\ ReportHolds(b)
=============================================================================
