-------------------------------- MODULE MCVmx --------------------------------
(* Processors that can do all that is asked, more, or less.                *)
EXTENDS Vmx

Window == {"INTERRUPT_WINDOW_EXITING"}
High(missing) == [f \in Ctrl |-> [low |-> IF f = "CpuBasedVmExecControl"
                                          THEN {"CR3_LOAD_EXITING"} ELSE {},
                                  high |-> (Requested(f) \ missing)
                                           \cup {"CR3_LOAD_EXITING"} \cup Window]]
Caps(vmx, missing) == [has_vmx |-> vmx, revision |-> 7, ctrl |-> High(missing)]
MCCapabilities ==
  {Caps(TRUE, {}), Caps(FALSE, {}), Caps(TRUE, {"ENABLE_EPT"}),
   Caps(TRUE, {"EXT_INTR_EXIT"}), Caps(TRUE, {"UNRESTRICTED_GUEST"})}

=============================================================================
