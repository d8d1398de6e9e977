---------------------------- MODULE MonitorSampling ----------------------------
(***************************************************************************)
(* What the monitor shows: the samples of src-tauri/src/core/              *)
(* monitor_worker.rs and the rates computed from two of them.              *)
(*                                                                         *)
(* The script reads the counters on the host; the answer is parsed, and    *)
(* given the time of this machine's clock, when it has arrived.  In        *)
(* between the counters go on, interfaces come and go, and the clock may   *)
(* be set.  A counter is one interface's received bytes; those sent are    *)
(* treated alike.  Memory and disk need no second sample and are left out. *)
(***************************************************************************)
EXTENDS Integers

CONSTANTS
    Nics,       \* interfaces of the host, without lo
    MaxCount,   \* bound of the bytes an interface counts
    MaxTicks,   \* bound of CPU_TOTAL
    MaxTraffic, \* bound of the bytes between two readings
    MaxClock,   \* bound of the clock
    Second      \* how many units of the clock make a second: 1000

ASSUME SamplingAssumption ==
    /\ MaxCount \in Nat /\ MaxTicks \in Nat /\ MaxTraffic \in Nat /\ MaxClock \in Nat
    /\ Second \in Nat \ {0}

VARIABLES
    counter,    \* the bytes each interface has counted, or Gone
    cpu,        \* CPU_TOTAL and CPU_IDLE
    clock,      \* the clock of this machine
    output,     \* what the script has read, until it is parsed, or Nothing
    network,    \* previous_network_sample: at most one
    processor,  \* previous_cpu_sample: at most one
    snapshot,   \* the last snapshot, or Nothing
    traffic,    \* history: the bytes since the reading before
    busy        \* history: the ticks of work, and all that count, since the reading before

remote == <<counter, cpu, traffic, busy>>
samplingVars == <<remote, clock, output, network, processor, snapshot>>

Gone == -1
Unknown == -1
Nothing == [at |-> -1]

SamplingTypeOK ==
    /\ counter \in [Nics -> 0 .. MaxCount \cup {Gone}]
    /\ cpu \in [total : 0 .. MaxTicks, idle : 0 .. MaxTicks]
    /\ clock \in 0 .. MaxClock
    /\ \A s \in network : s.at \in 0 .. MaxClock
    /\ \A s \in processor : s \in [total : 0 .. MaxTicks, idle : 0 .. MaxTicks]
    /\ output # Nothing => output.read \subseteq [total : 0 .. MaxTicks, idle : 0 .. MaxTicks]
    /\ traffic \in [Nics -> Nat]
    /\ busy \in [all : Int, work : Nat]

SamplingInit ==
    /\ counter = [n \in Nics |-> 0] /\ cpu = [total |-> 0, idle |-> 0]
    /\ clock = 0 /\ output = Nothing /\ network = {} /\ processor = {} /\ snapshot = Nothing
    /\ traffic = [n \in Nics |-> 0] /\ busy = [all |-> 0, work |-> 0]

-----------------------------------------------------------------------------
(* The host, and the clock.                                                *)

Receive(n) ==
    /\ counter[n] \in 0 .. MaxCount - 1 /\ traffic[n] < MaxTraffic
    /\ counter' = [counter EXCEPT ![n] = @ + 1] /\ traffic' = [traffic EXCEPT ![n] = @ + 1]
    /\ UNCHANGED <<cpu, busy, clock, output, network, processor, snapshot>>

\* The interface is removed, or comes back and counts from zero.
Replug(n) ==
    /\ counter' = [counter EXCEPT ![n] = IF @ = Gone THEN 0 ELSE Gone]
    /\ UNCHANGED <<cpu, traffic, busy, clock, output, network, processor, snapshot>>

\* Linux may take back a tick of iowait, which CPU_TOTAL and CPU_IDLE both count.
Work ==
    /\ \/ /\ cpu.total < MaxTicks
          /\ \E idle \in {0, 1} :
                /\ cpu' = [total |-> cpu.total + 1, idle |-> cpu.idle + idle]
                /\ busy' = [all |-> busy.all + 1, work |-> busy.work + 1 - idle]
       \/ /\ cpu.idle > 0
          /\ cpu' = [total |-> cpu.total - 1, idle |-> cpu.idle - 1]
          /\ busy' = [busy EXCEPT !.all = @ - 1]
    /\ UNCHANGED <<counter, traffic, clock, output, network, processor, snapshot>>

\* Time passes; or the clock is set back.
Tick ==
    /\ clock' \in {clock + 1, clock - 1} \cap 0 .. MaxClock
    /\ UNCHANGED <<remote, output, network, processor, snapshot>>

-----------------------------------------------------------------------------
(* collect_once.                                                           *)

Present == {n \in Nics : counter[n] # Gone}

\* STATUS_SCRIPT.  /proc/net/dev or the CPU line may be missing; a line of an
\* interface that cannot be parsed makes the whole network unavailable.
Execute ==
    /\ output = Nothing
    /\ \E counts \in {{[n \in Present |-> counter[n]]}, {}}, read \in {{cpu}, {}} :
          output' = [at |-> 0, counts |-> counts, read |-> read,
                     traffic |-> traffic, busy |-> busy]
    /\ traffic' = [n \in Nics |-> 0] /\ busy' = [all |-> 0, work |-> 0]
    /\ UNCHANGED <<counter, cpu, clock, network, processor, snapshot>>

\* rate_between: a counter that has fallen, or a clock that has not advanced.
RateBetween(previous, current, elapsed) ==
    IF elapsed <= 0 \/ current < previous THEN Unknown ELSE ((current - previous) * Second) \div elapsed

\* compute_network_rates, from the sample before to counts read by now.
Rates(previous, counts, now) ==
    [n \in DOMAIN counts |->
        IF \E s \in previous : n \in DOMAIN s.counts
        THEN LET s == CHOOSE s \in previous : TRUE
             IN  RateBetween(s.counts[n], counts[n], now - s.at)
        ELSE Unknown]

Fallen(a, b) == IF a < b THEN 0 ELSE a - b

\* The share of a in b, in tenths of a percent, to the nearest.
Tenths(a, b) == (2000 * a + b) \div (2 * b)

\* compute_cpu_usage, with subtractions that stop at zero.
Usage(old, new) ==
    LET total == Fallen(new.total, old.total)
    IN  IF total = 0 THEN 0 ELSE Tenths(Fallen(total, Fallen(new.idle, old.idle)), total)

KeptNetwork(counts) ==                                               \* variant
    IF counts = {} THEN network ELSE {[at |-> clock, counts |-> c] : c \in counts}

\* The baseline of the next sample: none if this one could not be read.
NextNetwork(counts) == {[at |-> clock, counts |-> c] : c \in counts}

KeptProcessor(read) == IF read = {} THEN processor ELSE read         \* variant
NextProcessor(read) == read

\* parse_snapshot_at, and what the loop does with its result.
Publish ==
    /\ output # Nothing
    /\ LET rates == {Rates(network, c, clock) : c \in output.counts}
           usage == IF processor = {} \/ output.read = {} THEN Unknown
                    ELSE Usage(CHOOSE s \in processor : TRUE, CHOOSE s \in output.read : TRUE)
       IN  snapshot' = [at |-> clock, network |-> rates, cpu |-> usage]
    /\ network' = NextNetwork(output.counts) /\ processor' = NextProcessor(output.read)
    /\ output' = Nothing
    /\ UNCHANGED <<remote, clock>>

\* The connection is lost, or collecting is stopped; monitoring may be started
\* again, and knows nothing of the samples before.
Restart ==
    /\ output' = Nothing /\ network' = {} /\ processor' = {} /\ snapshot' = Nothing
    /\ UNCHANGED <<remote, clock>>

SamplingNext ==
    \/ \E n \in Nics : Receive(n) \/ Replug(n)
    \/ Work \/ Tick
    \/ Execute \/ Publish \/ Restart

SamplingSpec == SamplingInit /\ [][SamplingNext]_samplingVars

-----------------------------------------------------------------------------
\* A rate never says more bytes than the interface has received between the two
\* readings it is of, for the time between the two snapshots; and it is of the
\* snapshot before, not of an older one: interfaces that vanish and come back,
\* counters that start again, unreadable samples, late answers and a clock
\* that is set make it unknown, or too small.
RatesAreOfThePeriod ==
    [][Publish => \A rates \in snapshot'.network : \A n \in DOMAIN rates :
          rates[n] # Unknown =>
              /\ snapshot # Nothing /\ snapshot.network # {}
              /\ rates[n] * (snapshot'.at - snapshot.at) <= output.traffic[n] * Second]_samplingVars

\* A CPU usage is, to half a tenth of a percent, the share that work has of the
\* ticks since the last snapshot that is shown, and never more than all of
\* them.  It is unknown when that snapshot had no reading, and 0 when as many
\* ticks of iowait have been taken back as have passed.
UsageIsOfThePeriod ==
    [][Publish /\ snapshot'.cpu # Unknown =>
          LET all == output.busy.all
              work == IF output.busy.work <= all THEN output.busy.work ELSE all
          IN  IF all <= 0 THEN snapshot'.cpu = 0
              ELSE /\ snapshot'.cpu \in 0 .. 1000
                   /\ 2 * snapshot'.cpu * all \in 2000 * work - all .. 2000 * work + all]_samplingVars
=============================================================================
