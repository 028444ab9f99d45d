----------------------------- MODULE RootPatch ------------------------------
(***************************************************************************)
(* POST /admin/patch-merkle-root beside the handlers of Transfer.  It reads *)
(* the sidecar, then the manifest, and puts the patched manifest back with  *)
(* no etag condition: the one manifest writer that does not go through      *)
(* updateManifest.                                                          *)
(***************************************************************************)
EXTENDS Transfer

\* The sidecar is read and the root it stands for rebuilt.
PatchSidecar(p) ==
  /\ At(p, "idle")
  /\ sidecar # NoBody
  /\ Begin(p, [NewReq("patch_read", "patch") EXCEPT !.body = sidecar])
  /\ UNCHANGED <<record, objects, dock, releases, clock>>

\* The manifest is read; nothing is done when it already has that root.
PatchRead(p) ==
  /\ At(p, "patch_read")
  /\ IF ~Exists(man) \/ man.merkle_root = req[p].body THEN Done(p)
     ELSE Become(p, [req[p] EXCEPT !.pc = "patch_put", !.m = man])
  /\ UNCHANGED <<record, objects, dock, releases, clock>>

\* The copy read before is written over whatever the manifest is by now.
PatchPut(p) ==
  /\ At(p, "patch_put")
  /\ man' = [req[p].m EXCEPT !.merkle_root = req[p].body]
  /\ written' = now
  /\ Done(p)
  /\ UNCHANGED <<objects, dock, releases, clock>>

PatchNext ==
  \/ Next
  \/ \E p \in Reqs : PatchSidecar(p) \/ PatchRead(p) \/ PatchPut(p)

PatchSpec == Init /\ [][PatchNext]_vars
=============================================================================
