---------------------------- MODULE WireProtocol ----------------------------
(***************************************************************************)
(* The messages of protocol.py, which two programs build and check: the    *)
(* client makes requests and parses responses, the server the reverse; and *)
(* the checks around them, of images.py before a request is made and of    *)
(* the ModelSpec (core/contracts.py) before and after a backend computes.  *)
(* An array is its shape and a class of values: "finite", "huge" (finite   *)
(* in double precision, infinite in single) or "nan".  The limits are      *)
(* parameters.                                                             *)
(***************************************************************************)
EXTENDS Integers, Sequences, SequencesExt

CONSTANTS MAX_INSTRUCTION_BYTES, MAX_TIMEOUT_MS, MAX_IMAGES, MAX_TENSOR_RANK

Refused == [type |-> "refused"]

Colors == [c \in {1, 3, 4} |-> CASE c = 1 -> "gray" [] c = 3 -> "rgb" [] c = 4 -> "rgba"]

\* np.ascontiguousarray() makes a vector of a scalar; converting to u8 leaves no value
\* infinite, converting to f32 overflows.
pack_array(array, dtype) ==
    [dtype |-> dtype,
     shape |-> IF array.shape = <<>> THEN <<1>> ELSE array.shape,
     values |-> CASE dtype = "u8" -> "finite"
                  [] array.values = "huge" -> "infinite"
                  [] OTHER -> array.values]

Packs(array) == Len(array.shape) <= MAX_TENSOR_RANK

\* unpack_array() gives back what was packed, or refuses the tensor.
Unpacks(tensor) == tensor.dtype \in {"u8", "i32", "f32"} /\ Len(tensor.shape) <= MAX_TENSOR_RANK

\* Mutant of InRange: parse_infer_request refuses the largest timeout.
InRangeExclusive(timeout_ms) == timeout_ms > 0 /\ timeout_ms < MAX_TIMEOUT_MS

\* parse_infer_request's test of the timeout.
InRange(timeout_ms) == timeout_ms > 0 /\ timeout_ms <= MAX_TIMEOUT_MS

make_infer_request(args) ==
    IF /\ args.request_id >= 0 /\ args.control_step >= 0 /\ args.timestamp_ns >= 0
       /\ args.instruction > 0 /\ args.instruction <= MAX_INSTRUCTION_BYTES
       /\ args.timeout_ms > 0 /\ args.timeout_ms <= MAX_TIMEOUT_MS
       /\ Len(args.images) <= MAX_IMAGES
       /\ \A i \in DOMAIN args.images :
             LET image == args.images[i]
             IN /\ image.name # "" /\ image.timestamp_ns >= 0
                /\ Len(image.array.shape) = 3 /\ Last(image.array.shape) \in DOMAIN Colors
       /\ Packs(args.state)
    THEN [args EXCEPT
            !.type = "infer",
            !.images = [i \in DOMAIN @ |-> [name |-> @[i].name,
                                            timestamp_ns |-> @[i].timestamp_ns,
                                            color |-> Colors[Last(@[i].array.shape)],
                                            tensor |-> pack_array(@[i].array, "u8")]],
            !.state = pack_array(@, "f32")]
    ELSE Refused

parse_infer_request(message) ==
    IF /\ message.type = "infer"
       /\ message.request_id >= 0 /\ message.control_step >= 0 /\ message.timestamp_ns >= 0
       /\ message.instruction > 0 /\ message.instruction <= MAX_INSTRUCTION_BYTES
       /\ InRange(message.timeout_ms)
       /\ Len(message.images) <= MAX_IMAGES
       /\ \A i \in DOMAIN message.images :
             LET item == message.images[i]
             IN /\ item.name # "" /\ item.timestamp_ns >= 0
                /\ \A j \in 1..(i - 1) : message.images[j].name # item.name
                /\ Unpacks(item.tensor)
                /\ item.tensor.dtype = "u8" /\ Len(item.tensor.shape) = 3
                /\ Last(item.tensor.shape) \in {1, 3, 4}
       /\ Unpacks(message.state)
       /\ message.state.dtype = "f32" /\ Len(message.state.shape) = 1
       /\ message.state.values = "finite"
    THEN LET named(name) == CHOOSE i \in DOMAIN message.images : message.images[i].name = name
             names == {message.images[i].name : i \in DOMAIN message.images}
         IN [message EXCEPT !.type = "request",
                            !.images = [name \in names |-> message.images[named(name)].tensor]]
    ELSE Refused

make_action_response(request, actions, representation) ==
    LET array == pack_array(actions, "f32")
    IN IF /\ Len(array.shape) = 2 /\ array.values = "finite"
          /\ representation \in {"absolute", "delta", "relative"}
       THEN [type |-> "action",
             request_id |-> request.request_id,
             first_control_step |-> request.control_step,
             source_timestamp_ns |-> request.timestamp_ns,
             representation |-> representation,
             actions |-> array]
       ELSE Refused

parse_action_response(message) ==
    IF /\ message.type = "action"
       /\ Unpacks(message.actions)
       /\ message.actions.dtype = "f32" /\ Len(message.actions.shape) = 2
       /\ message.actions.values = "finite"
    THEN message
    ELSE Refused

-----------------------------------------------------------------------------
(* images.py and core/contracts.py *)

\* A camera image with its channels last, and at most three of them.
as_hwc(image) ==
    LET channels == {1, 3, 4}
        first == image.shape[1]
        moved == IF first \in channels /\ Last(image.shape) \notin channels
                 THEN Append(Tail(image.shape), first) ELSE image.shape
    IN IF Len(image.shape) = 3 /\ Last(moved) \in channels
       THEN [image EXCEPT !.shape = [moved EXCEPT ![3] = IF @ > 3 THEN 3 ELSE @]]
       ELSE Refused

validate_request(spec, request) ==
    /\ request.state.shape = <<spec.model_state_dim>>
    /\ ToSet(spec.camera_order) \subseteq DOMAIN request.images

\* The conversion to single precision comes before the check.
validate_actions(spec, actions) ==
    /\ actions.shape = <<spec.action_horizon, spec.model_action_dim>>
    /\ actions.values = "finite"

\* MockBackend: any finite state gives a chunk of the spec's shape.
MockInfer(spec, request) ==
    LET actions == [shape |-> <<spec.action_horizon, spec.model_action_dim>>, values |-> "finite"]
    IN IF validate_request(spec, request) /\ validate_actions(spec, actions) THEN actions
       ELSE Refused

-----------------------------------------------------------------------------

\* What one side makes the other side accepts, with the ids and the images it was made
\* with.  The server refuses, of all requests that make_infer_request lets pass, just
\* those with an image name given twice or a state that is not a vector of numbers
\* finite in single precision.  It makes no response that the client refuses, and it
\* makes one for every chunk that the ModelSpec accepts; so a request with all cameras
\* and a state of the right length gets a chunk of the right shape from the mock model.
\* An image that as_hwc() has normalized can be sent, as "rgb" unless it was grey.
WhatIsMadeParses(args, actions, representation, spec) ==
    LET request == make_infer_request(args)
        parsed == parse_infer_request(request)
        response == make_action_response(parsed, actions, representation)
        names == [i \in DOMAIN args.images |-> args.images[i].name]
        computed == MockInfer(spec, parsed)
        answer == make_action_response(parsed, computed, representation)
    IN /\ \A i \in DOMAIN args.images :
             LET image == as_hwc(args.images[i].array)
             IN image # Refused => /\ Packs(image)
                                   /\ Colors[Last(image.shape)] = "rgb" \/
                                        (Last(image.shape) = 1 /\ 1 \in ToSet(args.images[i].array.shape))
       /\ request # Refused =>
             /\ parsed = Refused <=>
                   \/ ~ IsInjective(names)
                   \/ Len(args.state.shape) > 1 \/ args.state.values # "finite"
             /\ parsed # Refused =>
                   /\ \A i \in DOMAIN names :
                         parsed.images[names[i]].shape = args.images[i].array.shape
                   /\ validate_actions(spec, actions) => response # Refused
                   /\ response # Refused =>
                         /\ parse_action_response(response) = response
                         /\ response.request_id = args.request_id
                         /\ response.first_control_step = args.control_step
                   /\ ToSet(spec.camera_order) \subseteq ToSet(names)
                      /\ args.state.shape = <<spec.model_state_dim>> =>
                         answer.actions.shape = <<spec.action_horizon, spec.model_action_dim>>
=============================================================================
