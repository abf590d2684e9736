--------------------------- MODULE MCDeviceMemory ---------------------------
(* Two devices, two buffers of the program, and forests of every shape. *)
EXTENDS ForestLifetime
MCArrays == {"nodes", "vector_output", "categorical_storage"}
MCShapes == {s \in [vector : BOOLEAN, categorical : BOOLEAN, external : BOOLEAN] :
               s.external => s.categorical}
=============================================================================
