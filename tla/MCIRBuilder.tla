---------------------------- MODULE MCIRBuilder ----------------------------
(* Seven-bit words with the type tag in the top four bits. *)
EXTENDS IRBuilder, HostInt

AllWords == -64..63
AllMethods == {"addConstInt", "addConstBool", "addBinary", "addUnary",
               "addRotateRight", "addGEP", "addLoad", "addStore", "addBranch",
               "addCondBranch", "addReturn", "addPhi", "addCall"}

(* Values that fit below the type tag, and their negatives, never clash:   *)
(* whichever of them a program has, each has a key of its own.             *)
Narrow == -(2^TypeShift)..2^TypeShift-1
ASSUME NarrowKeysApart ==
    \A v, w \in Narrow, t, u \in Types : CacheKey(v, t) = CacheKey(w, u) => v = w /\ t = u
=============================================================================
