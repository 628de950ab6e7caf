------------------------------ MODULE MC_MemMap ------------------------------
(* Seven pages, the image at page 2; every combination of types around it.     *)
EXTENDS MemMap

Low == {"Conventional", "LoaderCode"}
High == {"Conventional", "LoaderCode", "LoaderData", "Reserved", "ACPIReclaim", Hole}
MC_Layouts ==
  {f \in [0..6 -> High] : f[0] = "Conventional" /\ f[1] \in Low /\ f[2] = "LoaderCode"
                          /\ f[6] \in {"Conventional", "LoaderData"}}
=============================================================================
