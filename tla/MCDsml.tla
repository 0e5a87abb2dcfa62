------------------------------- MODULE MCDsml -------------------------------
(* The instance of DsmlAnswer that TLC checks. *)
EXTENDS DsmlAnswer

Call(name, param) == <<InvokeOpen(name), Param(param), InvokeClose>>

\* The tags one by one, whole calls (of a tool whose name is mapped, and of none),
\* and prose.
SomeFragments == {<<RegionOpen>>, <<RegionClose>>, <<InvokeOpen("shell")>>, <<InvokeClose>>,
                  Call("read_file", "path"), <<InvokeOpen(""), InvokeClose>>,
                  <<Word("w")>>, <<Mention>>}
NoCuts == {{}}
AnyCuts == SUBSET Cuttable

=============================================================================
