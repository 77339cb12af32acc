----------------------------- MODULE MCStartup -----------------------------
(***************************************************************************)
(* Startup with one API and one worker, for sound and unsound              *)
(* configurations.                                                         *)
(***************************************************************************)
EXTENDS Startup, TLC

CONSTANTS api, worker

Roles == api :> "api" @@ worker :> "worker"

NoDefect == [v \in Required \cup Optional |-> {}]
Elsewhere == [kind |-> "name", resolvesHere |-> FALSE]

Portal(defects, host, http, metrics, mode) ==
    [defects |-> defects, host |-> host, mode |-> mode,
     ports |-> ("PORT" :> http @@ "WORKER_METRICS_PORT" :> metrics)]

V4(parts) == [kind |-> "v4", parts |-> parts]
V6(head, tail, compressed) ==
    [kind |-> "v6", head |-> head, tail |-> tail, compressed |-> compressed]

\* With Byte = 4 and LoopbackNet = 3: 3.1, 3.0.0.1, 3.0.1, 49 (0.3.0.1), 0,
\* 3.5, 0.0.1, ::1, ::, ::ffff:3.0.0.1, ::ffff:0, 1::1, 0:0:0:0:0:0:0:1.
Hosts ==
    {Elsewhere, [Elsewhere EXCEPT !.resolvesHere = TRUE],
     [kind |-> "empty"], [kind |-> "localhost"],
     V4(<<3, 1>>), V4(<<3, 0, 0, 1>>), V4(<<3, 0, 1>>), V4(<<49>>), V4(<<193>>), V4(<<0>>),
     V4(<<3, 5>>), V4(<<0, 0, 1>>), V4(<<1, 3>>),
     V6(<<>>, <<1>>, TRUE), V6(<<>>, <<>>, TRUE), V6(<<>>, <<15, 12, 1>>, TRUE),
     V6(<<>>, <<15, 0, 0>>, TRUE), V6(<<1>>, <<1>>, TRUE),
     V6(<<0, 0, 0, 0, 0, 0, 0, 1>>, <<>>, FALSE), V6(<<>>, <<15, 4, 1>>, TRUE)}

\* One defect at most, one host, ports as written.
ProductionConfigurations ==
    {Portal(NoDefect, h, 3000, 9101, "production") : h \in Hosts}
    \cup {Portal([NoDefect EXCEPT ![v] = {d}], Elsewhere, 3000, 9101, m) :
            v \in Required \cup Optional, d \in {"absent", "malformed", "development"},
            m \in {"production"}}
    \cup {Portal([NoDefect EXCEPT !["PORT"] = d], Elsewhere, http, metrics, "development") :
            d \in {{}, {"absent"}}, http \in {3000, 9101}, metrics \in {3000, 9101}}
=============================================================================
