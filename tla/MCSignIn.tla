------------------------------ MODULE MCSignIn ------------------------------
EXTENDS SignIn
Everything == Faults
FromRefusals == {{"refusal"}}
FromConsents == {{"consent"}}
=============================================================================
