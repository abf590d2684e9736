-------------------------- MODULE MCPredictRouting --------------------------
(* Small instances of PredictRouting for TLC: two streams, partitions of one
   row or more, and two devices. *)
EXTENDS PredictRouting

CONSTANTS s1, s2

Cpu(device) == [mem |-> "cpu", device |-> device]
Gpu(device) == [mem |-> "gpu", device |-> device]

Calls(overloads, pools, currents, models, places, rows, chunks) ==
  [overload : overloads, pooled : BOOLEAN, pool_size : pools, stream_device : {0},
   current : currents, model : models, input : places, output : places,
   pinned : BOOLEAN, rows : rows, num_features : {2}, num_outputs : {1, 3}, chunk : chunks]

(* Every placement and every number of partitions up to 3; a call may be
   refused for its pool, its rows, its streams or its devices. *)
MCPredictions ==
  {c \in Calls({"buffers", "pointers"}, {0, 2}, {0, 1}, {Cpu(NoDevice), Gpu(0), Gpu(1)},
               {Cpu(NoDevice), Gpu(0), Gpu(1)}, {0, 1, 3, 5}, {0, 2}) :
     /\ ~c.pooled => c.pool_size = 0 /\ c.chunk = 0
     /\ c.overload = "buffers" => c.current = 0
     /\ c.pinned => "cpu" \in {c.input.mem, c.output.mem}
     /\ c.num_outputs = 3 => c.rows = 3}

(* Host buffers as their constructor makes them, and a model on the CPU. *)
HostPredictions ==
  {c \in Calls({"buffers", "pointers"}, {2}, {0}, {Cpu(NoDevice), Gpu(0)},
               {Cpu(0), Gpu(0)}, {2}, {0}) : c.num_outputs = 1}

MCStreams == {s1, s2}
=============================================================================
