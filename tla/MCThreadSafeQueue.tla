------------------------- MODULE MCThreadSafeQueue -------------------------
(* ThreadSafeQueue with a few threads, items and slots.                    *)
EXTENDS ThreadSafeQueue
============================================================================
