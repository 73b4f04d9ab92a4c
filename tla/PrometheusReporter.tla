-------------------------- MODULE PrometheusReporter --------------------------
(***************************************************************************)
(* PrometheusReporter of reporters/prometheus_reporter.py: the registry of *)
(* the standard metrics, the operations that record into it, and what the  *)
(* Pushgateway shows.  The gateway keeps metrics in groups, one for each   *)
(* set of labels it is called with; a push replaces the group, an add      *)
(* replaces the metrics it brings, a delete empties the group.             *)
(*                                                                         *)
(* The test host and each pytest session it starts have a reporter of      *)
(* their own, under one job name and an instance each.  The host's key is  *)
(* its session, that of every pytest session is "unknown".                 *)
(***************************************************************************)
EXTENDS Naturals, Sequences, FiniteSets

CONSTANTS
  MaxRecords, \* bound: how often something is recorded
  Custom,     \* names of custom metrics
  Instances,  \* the reporters, by their instance_id
  Job,        \* their job_name
  KeyLabels,  \* the labels a caller puts into a grouping key ...
  KeyValues   \* ... and their values

(* No caller passes a key that has one of the reporter's own labels.       *)
ASSUME PrometheusAssumption ==
  MaxRecords \in Nat \ {0} /\ {"job", "instance"} \cap KeyLabels = {}

VARIABLES
  registry,   \* of each reporter, how often each metric was written
  gateway,    \* per group, the metrics it shows, as they were when pushed
  records,    \* how many records were made
  raised,     \* the metric whose labels made the last record raise
  shown,      \* history: what a reporter has brought to the gateway with a
              \* key, by the calls that answered True
  sure        \* history: the reporters and keys of which that is known

gatewayVars == <<gateway, shown, sure>>
promVars == <<registry, records, raised, gatewayVars>>

-----------------------------------------------------------------------------
(* The labels each metric is declared with, besides the board.             *)
Build == {"build_version"}
TestLabels == Build \cup {"test_type", "test_name"}

Declared ==
  [test_duration |-> TestLabels,
   test_success |-> TestLabels,
   test_failure |-> TestLabels \cup {"failure_reason"},
   boot_time |-> Build \cup {"boot_stage"},
   boot_stage_duration |-> Build \cup {"boot_stage"},
   network_throughput |-> Build \cup {"protocol", "direction"},
   network_latency |-> Build \cup {"protocol"},
   packet_loss |-> Build \cup {"test_duration"},
   uart_throughput |-> Build \cup {"baud_rate"},
   uart_error_rate |-> Build \cup {"error_type"},
   power_cycle_duration |-> {"power_controller_type"},
   jtag_operation_duration |-> {"operation_type", "cable_type"},
   memory_usage |-> Build \cup {"memory_type"},
   cpu_usage |-> Build \cup {"cpu_core"},
   temperature |-> Build \cup {"sensor_location"}]

Metrics == DOMAIN Declared

Write(m, labels) == [metric |-> m, labels |-> labels]

(* Mutant: the failure reason is always among the labels.                  *)
TestExecutionOneLabelSet(success) ==
  <<Write("test_duration", TestLabels),
    Write(IF success THEN "test_success" ELSE "test_failure",
          TestLabels \cup {"failure_reason"})>>

(* The operations: what they write, in this order, with which labels.      *)
(* test_execution writes success or failure, boot any number of stages,    *)
(* the others what the caller measured.                                    *)
TestExecution(success) ==
  <<Write("test_duration", TestLabels),
    IF success THEN Write("test_success", TestLabels)
    ELSE Write("test_failure", TestLabels \cup {"failure_reason"})>>

BootMetrics(staged) ==
  <<Write("boot_time", Build \cup {"boot_stage"})>> \o
  IF staged THEN <<Write("boot_stage_duration", Build \cup {"boot_stage"})>>
  ELSE <<>>

(* An optional measurement that is None is not written.                    *)
Measured(m, labels) == {<<>>, <<Write(m, labels)>>}

Both(A, B) == {a \o b : a \in A, b \in B}

NetworkMetrics ==
  Both(Measured("network_throughput", Build \cup {"protocol", "direction"}),
       Both(Measured("network_latency", Build \cup {"protocol"}),
            Measured("packet_loss", Build \cup {"test_duration"})))

UartMetrics ==
  LET labels == Build \cup {"baud_rate"}
  IN  Both(Measured("uart_throughput", labels),
           Measured("uart_error_rate", labels \cup {"error_type"}))

HardwareControlMetrics ==
  Both(Measured("power_cycle_duration", {"power_controller_type"}),
       Measured("jtag_operation_duration", {"operation_type", "cable_type"}))

SystemMetrics ==
  Both(Measured("memory_usage", Build \cup {"memory_type"}),
       Both(Measured("cpu_usage", Build \cup {"cpu_core"}),
            Measured("temperature", Build \cup {"sensor_location"})))

Operations ==
  {TestExecution(b) : b \in BOOLEAN} \cup {BootMetrics(b) : b \in BOOLEAN}
  \cup NetworkMetrics \cup UartMetrics \cup HardwareControlMetrics
  \cup SystemMetrics

(* labels() raises for other labels than the declared ones.                *)
Fits(w) == w.labels = Declared[w.metric]

-----------------------------------------------------------------------------
Nothing == [m \in Metrics \cup Custom |-> 0]

(* A caller passes any of the labels; none is no grouping key at all.      *)
Keys == UNION {[D -> KeyValues] : D \in SUBSET KeyLabels}
NoKey == [l \in {} |-> Job]

(* Mutant: the grouping key is left out.                                   *)
LabelsOfReporter(i, k) ==
  [l \in {"job", "instance"} |-> IF l = "instance" THEN i ELSE Job]

(* The labels a call of reporter i with key k goes to the gateway with.    *)
GatewayLabels(i, k) ==
  [l \in {"job", "instance"} \cup DOMAIN k |->
     IF l \in DOMAIN k THEN k[l] ELSE IF l = "instance" THEN i ELSE Job]

Groups == {GatewayLabels(i, k) : i \in Instances, k \in Keys}
Contents == [Metrics \cup Custom -> 0..MaxRecords]

PromTypeOK ==
  /\ registry \in [Instances -> [Metrics -> 0..MaxRecords]]
  /\ gateway \in [Groups -> Contents]
  /\ records \in 0..MaxRecords
  /\ raised \in SUBSET Metrics
  /\ shown \in [Instances \X Keys -> Contents]
  /\ sure \in SUBSET (Instances \X Keys)

PromInit ==
  /\ registry = [i \in Instances |-> [m \in Metrics |-> 0]]
  /\ gateway = [g \in Groups |-> Nothing]
  /\ records = 0
  /\ raised = {}
  /\ shown = [c \in Instances \X Keys |-> Nothing]
  /\ sure = Instances \X Keys

(* Up to the first write that does not fit, which raises.                  *)
Done(op) == {i \in DOMAIN op : \A j \in 1..i : Fits(op[j])}
Raises(op) == {op[i].metric : i \in DOMAIN op \ Done(op)}

Record(i, op) ==
  /\ records < MaxRecords
  /\ records' = records + 1
  /\ registry' = [registry EXCEPT ![i] =
                    [m \in Metrics |->
                       registry[i][m] + IF m \in {op[j].metric : j \in Done(op)}
                                        THEN 1 ELSE 0]]
  /\ raised' = Raises(op)
  /\ UNCHANGED gatewayVars

Snapshot(i) ==
  [m \in Metrics \cup Custom |-> IF m \in Metrics THEN registry[i][m] ELSE 0]

-----------------------------------------------------------------------------
(* Calls to the gateway.  One that answers False, since it was refused or  *)
(* not answered, has changed the gateway or has not; the reporter keeps no *)
(* account of it.                                                          *)

Fails(i, k, group) ==
  /\ gateway' \in {gateway, [gateway EXCEPT ![GatewayLabels(i, k)] = group]}
  /\ shown' = [shown EXCEPT ![<<i, k>>] = Nothing]
  /\ sure' = sure \ {<<i, k>>}

Replace(i, k, group) ==
  /\ \/ /\ gateway' = [gateway EXCEPT ![GatewayLabels(i, k)] = group]
        /\ shown' = [shown EXCEPT ![<<i, k>>] = group]
        /\ sure' = sure \cup {<<i, k>>}
     \/ Fails(i, k, group)
  /\ UNCHANGED <<registry, records, raised>>

(* push_metrics: all of the registry, in place of the group.               *)
Push(i, k) == Replace(i, k, Snapshot(i))

(* push_custom_metric: from a registry of its own, added to the group      *)
(* without a key.  (Histograms, summaries and metrics without labels are   *)
(* refused before they are pushed.)                                        *)
PushCustom(i, c) ==
  LET group == [gateway[GatewayLabels(i, NoKey)] EXCEPT ![c] = 1]
  IN  /\ \/ /\ gateway' = [gateway EXCEPT ![GatewayLabels(i, NoKey)] = group]
            /\ shown' = IF <<i, NoKey>> \in sure
                        THEN [shown EXCEPT ![<<i, NoKey>>] = [@ EXCEPT ![c] = 1]]
                        ELSE shown
            /\ UNCHANGED sure
         \/ Fails(i, NoKey, group)
      /\ UNCHANGED <<registry, records, raised>>

ClearMetrics(i, k) == Replace(i, k, Nothing)

PromNext ==
  \/ \E i \in Instances, op \in Operations : Record(i, op)
  \/ \E i \in Instances, k \in Keys : Push(i, k)
  \/ \E i \in Instances, c \in Custom : PushCustom(i, c)
  \/ \E i \in Instances, k \in Keys : ClearMetrics(i, k)

PromSpec == PromInit /\ [][PromNext]_promVars

-----------------------------------------------------------------------------
(* Of all measurements only the error rate of the UART is refused by its   *)
(* metric, which is declared without the baud rate; the throughput before  *)
(* it has been recorded then.  (record_uart_metrics, labels of             *)
(* _initialize_standard_metrics)                                           *)
RecordsFit ==
  /\ raised \subseteq {"uart_error_rate"}
  /\ \A i \in Instances : registry[i]["uart_error_rate"] = 0

(* Whatever else is pushed, added or cleared, by the same reporter with    *)
(* another key or by another reporter with the same one, the gateway shows *)
(* under a caller's labels what that caller's own calls have brought       *)
(* there: its last push or clear with this key, and the custom metrics     *)
(* added since.  Only a call that answered False leaves that open, until   *)
(* the next push or clear that answers True.  (gateway_labels in           *)
(* push_metrics, clear_metrics and push_custom_metric)                     *)
PushedStays ==
  \A i \in Instances, k \in Keys :
    <<i, k>> \in sure => gateway[GatewayLabels(i, k)] = shown[<<i, k>>]

-----------------------------------------------------------------------------
(* The inductive invariant.                                                *)

(* A metric is written at most once by each record.                        *)
RegistryInv ==
  \A i \in Instances, m \in Metrics : registry[i][m] <= records

PromIInv == PromTypeOK /\ RegistryInv /\ RecordsFit /\ PushedStays
=============================================================================
