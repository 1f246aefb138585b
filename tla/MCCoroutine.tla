---------------------------- MODULE MCCoroutine ----------------------------
EXTENDS Coroutine
=============================================================================
