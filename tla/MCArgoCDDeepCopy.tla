--------------------------- MODULE MCArgoCDDeepCopy ---------------------------
EXTENDS ArgoCDDeepCopy

\* Three chains: three pointers set anywhere, a deepest one (such as
\* Spec.SSO.VerifyTLS) with everything on its way.
MCMaxChains == 3

MCMaxWrites == 1

=============================================================================
