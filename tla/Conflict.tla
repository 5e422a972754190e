------------------------------ MODULE Conflict ------------------------------
(***************************************************************************)
(* The shadow document (internal/model) and the rules that merge one       *)
(* operation into it (internal/conflict), as pure operators.               *)
(*                                                                         *)
(* Payloads are abstracted to their provenance: the value of the desired   *)
(* section, and of each reported property, is the version of the operation *)
(* that wrote it, and 0 stands for "no value".  Versions are unique per    *)
(* device, so two payloads are equal exactly when one write produced both. *)
(* UpdatedAt is never read by the program and is left out.                 *)
(***************************************************************************)
EXTENDS Integers

CONSTANT Keys   \* the property names of the reported section

\* StateOf answers the empty string, here "absent", for a missing shadow.
State == {"absent", "created", "synced", "stale"}

(***************************************************************************)
(* obj is the identity of the heap object: the version of the operation    *)
(* that allocated it.  Two goroutines share a *Document when they hold the *)
(* same obj.  Nil stands for the nil pointer.                              *)
(***************************************************************************)
Document == [obj: Nat, desired: Nat, reported: [Keys -> Nat],
             desiredVersion: Nat, reportedVersion: Nat, version: Nat,
             state: State]

Nil == [obj |-> 0, desired |-> 0, reported |-> [k \in Keys |-> 0],
        desiredVersion |-> 0, reportedVersion |-> 0, version |-> 0,
        state |-> "absent"]

NewDocument(obj) == [Nil EXCEPT !.obj = obj, !.state = "created"]

Clone(doc, obj) == [doc EXCEPT !.obj = obj]

MaxVersion(a, b) == IF a > b THEN a ELSE b

RefreshWatermark(doc) ==
  [doc EXCEPT !.version = MaxVersion(doc.desiredVersion, doc.reportedVersion)]

MergeMapsReplacing(base, overlayKeys, value) ==
  [k \in Keys |-> IF k \in overlayKeys THEN value ELSE 0]

MergeMaps(base, overlayKeys, value) ==
  [k \in Keys |-> IF k \in overlayKeys THEN value ELSE base[k]]

-----------------------------------------------------------------------------
\* A Resolution is the set of sections the operation may change: its own one,
\* or none at all when it is stale.
ResolveAnyDesired(currentDesired, currentReported, opVersion, kind) ==
  {section \in {kind} :
     section = "report" => opVersion >= currentReported}

Resolve(currentDesired, currentReported, opVersion, kind) ==
  {section \in {kind} :
     /\ section = "desired" => opVersion >= currentDesired
     /\ section = "report" => opVersion >= currentReported}

-----------------------------------------------------------------------------
\* A desired operation: op.version from the allocator, op.props its payload.
MergeDesiredClearingReported(current, op) ==
  RefreshWatermark([Clone(current, op.version) EXCEPT
    !.desired = op.props, !.desiredVersion = MaxVersion(@, op.version),
    !.reported = [k \in Keys |-> 0], !.state = "stale"])

MergeDesiredForgettingWatermark(current, op) ==
  [Clone(current, op.version) EXCEPT
    !.desired = op.props, !.desiredVersion = MaxVersion(@, op.version),
    !.state = "stale"]

MergeDesiredLastWriter(current, op) ==
  RefreshWatermark([Clone(current, op.version) EXCEPT
    !.desired = op.props, !.desiredVersion = op.version, !.state = "stale"])

MergeDesired(current, op) ==
  LET res == Resolve(current.desiredVersion, current.reportedVersion,
                     op.version, "desired")
      out == Clone(current, op.version)
  IN IF "desired" \notin res
     THEN out
     ELSE RefreshWatermark([out EXCEPT
            !.desired = op.props,
            !.desiredVersion = MaxVersion(@, op.version),
            !.state = "stale"])

-----------------------------------------------------------------------------
\* A report: op.base is the version the device claims to be based on, op.keys
\* the properties it carries, op.version the allocated version.
MergeReport(current, op) ==
  LET res == Resolve(current.desiredVersion, current.reportedVersion,
                     op.base, "report")
      out == Clone(current, op.version)
  IN IF "report" \notin res
     THEN out
     ELSE RefreshWatermark([out EXCEPT
            !.reported = MergeMaps(@, op.keys, op.version),
            !.reportedVersion = MaxVersion(@, op.version),
            !.state = "synced"])

\* Policy.ApplyReport: under ReplaceSection a report based exactly on the
\* current reported version replaces the section, dropping its other keys.
PolicyApplyReport(replaceSection, current, op) ==
  IF replaceSection /\ op.base = current.reportedVersion /\ op.base > 0
  THEN RefreshWatermark([Clone(current, op.version) EXCEPT
         !.reported = MergeMaps(Nil.reported, op.keys, op.version),
         !.reportedVersion = MaxVersion(@, op.version),
         !.state = "synced"])
  ELSE MergeReport(current, op)

=============================================================================
