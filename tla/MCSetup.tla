-------------------------------- MODULE MCSetup --------------------------------
EXTENDS Setup
MCForms == {{"token", "frontend", "env", "agent"}, {"gateway id"}, {"identity", "service"}}
===============================================================================
