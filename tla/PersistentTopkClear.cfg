SPECIFICATION Spec
CONSTANTS
  CTAS = 3
  TOPK = 2
  CHUNK_SIZE = 2
  RADIX_THRESHOLD = 3
  RADIX = 3
  Batches <- OneRow
  PromptClear = FALSE
INVARIANT CountsComplete
