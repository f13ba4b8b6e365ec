--------------------------- MODULE DynamicEngine ----------------------------
(***************************************************************************)
(* _DynamicTensorRTEngine (models/turbovla/split_tensorrt.py): the Vision  *)
(* engine with one execution context, whose buffers are kept per tensor    *)
(* and shape and whose tensor addresses are set when a buffer is created.  *)
(* Images are resized before they get here, so a shape is a batch size.    *)
(* Nothing locks infer(): every line of it may interleave with another     *)
(* thread's.  The tokens of a frame are named by the frame; memory that    *)
(* was never written, or lies past the end of a buffer, reads as Garbage.  *)
(* The copy back, the synchronize() and the copy of the host buffer are    *)
(* one step: a thread that overwrites the host buffer in between gives the *)
(* same result as one that overwrites the device buffer before it.         *)
(***************************************************************************)
EXTENDS Integers, Sequences

CONSTANTS
    MaxBatch,                \* the largest batch the optimization profile allows
    Unallocated,             \* no buffer for a key of self.host
    Garbage                  \* what uninitialized memory holds

VARIABLES
    dynamic,                 \* dynamic_inputs is not empty: the engine has a dynamic profile
    shape,                   \* the context's input shape
    address,                 \* the buffer the context is bound to, for each tensor
    device                   \* contents of the buffer of each tensor and shape

engineVars == <<dynamic, shape, address, device>>

Tensors == {"images", "visual_tokens"}

EngineInit ==
    /\ dynamic \in BOOLEAN
    /\ shape = 1
    /\ address = [name \in Tensors |-> 0]
    /\ device = [name \in Tensors |-> [n \in 1..MaxBatch |-> Unallocated]]

\* The first lines of infer(): an engine without a dynamic profile keeps its shape.
SetShape(feed) ==
    /\ shape' = IF dynamic THEN Len(feed) ELSE shape
    /\ UNCHANGED <<dynamic, address, device>>

InputShape(feed) == IF dynamic THEN Len(feed) ELSE shape

New(name, n) == device[name][n] = Unallocated

\* _ensure_buffer for the input and for the output, whose shape is asked of the context.
EnsureBuffers(feed) ==
    LET key == [name \in Tensors |-> IF name = "images" THEN InputShape(feed) ELSE shape]
    IN /\ address' = [name \in Tensors |-> IF New(name, key[name]) THEN key[name] ELSE address[name]]
       /\ device' = [name \in Tensors |->
                       IF New(name, key[name])
                       THEN [device[name] EXCEPT ![key[name]] = [i \in 1..key[name] |-> Garbage]]
                       ELSE device[name]]
       /\ UNCHANGED <<dynamic, shape>>

\* Copying a batch into a host buffer of another shape raises ValueError.
Fits(feed) == Len(feed) = InputShape(feed)

CopyIn(feed) ==
    /\ Fits(feed)
    /\ device' = [device EXCEPT !["images"][Len(feed)] = feed]
    /\ UNCHANGED <<dynamic, shape, address>>

At(buffer, i) == IF i <= Len(buffer) THEN buffer[i] ELSE Garbage

\* execute_async_v3 reads and writes the bound buffers at the context's shape.
Execute ==
    LET input == device["images"][address["images"]]
    IN /\ device' = [device EXCEPT !["visual_tokens"][address["visual_tokens"]] =
                        [i \in DOMAIN @ |-> IF i <= shape THEN At(input, i) ELSE @[i]]]
       /\ UNCHANGED <<dynamic, shape, address>>

Output(n) == device["visual_tokens"][n]
=============================================================================
