----------------------------- MODULE MCSoftUart -----------------------------
EXTENDS SoftUartProps
=============================================================================
