--------------------------- MODULE MCLicenseClient ---------------------------
EXTENDS LicenseClient, TLC

\* devices and the server's requests are interchangeable
Symmetry == Permutations(Device) \cup Permutations(Verifier)
=============================================================================
