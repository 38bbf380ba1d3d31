-------------------------- MODULE MCEditModeration --------------------------
(* Small instances of EditModeration for TLC. *)
EXTENDS EditClaims, TLC

CONSTANTS weight, dof, v0, v1, s1, s2

MCFields == {weight, dof}
MCValues == {v0, v1}

Obj(w, d) == (weight :> w) @@ (dof :> d)

MCSeeds == {Obj(v0, v0)}
MCPatches == {Obj(v1, v0), Obj(Absent, v1)}

(* every single-field edit, for long serial histories *)
MCToggles == {Obj(v0, Absent), Obj(v1, Absent), Obj(Absent, v0), Obj(Absent, v1),
              Obj(v1, v1)}

(* a record without the optional field dof *)
MCSparseSeeds == {Obj(v0, Absent)}

MCPuts == {Obj(v0, v1)}

Sym == Permutations(Slots)
=============================================================================
