-------------------------- MODULE MCScriptThreads --------------------------
EXTENDS ScriptThreads
=============================================================================
