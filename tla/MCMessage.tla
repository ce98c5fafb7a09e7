----------------------------- MODULE MCMessage -----------------------------
(* Message with nested values up to and beyond the depth limit, and texts of *)
(* the byte values at which the Unicode table and the code change.           *)
EXTENDS Message

MCBytes == {65, 127, 128, 143, 144, 159, 160, 191, 193, 194, 223, 224, 225, 237, 239,
            240, 241, 244, 245, 248}

MCVersions == {0, 1, 2, IntModulus + 1}

(* Nothing, a scalar, and chains of objects with and without one at the end. *)
MCRests ==
  {{}, {Scalar}, {Object({})}, {Object({Scalar})}, {Scalar, Object({})},
   {Object({Object({})})}, {Object({Object({Scalar})})}}
=============================================================================
